---------------------------- MODULE Spec2Model ----------------------------
(***************************************************************************)
(* Query routing and workflow orchestration of portfolio-copilot:          *)
(* AgentOrchestrator (src/agents/orchestrator.py), the five LangGraph      *)
(* workflows (src/agents/workflows/*.py) and the tools they call           *)
(* (src/agents/tools/*.py).                                                *)
(*                                                                         *)
(* Python strings are TLA+ strings; a character is a string of length 1.   *)
(* Floats are modelled by integers; the holdings the broker returns are    *)
(* chosen so that every percentage the code computes is integral.          *)
(***************************************************************************)
EXTENDS Integers, Sequences, FiniteSets, TLC

None == "None"

-----------------------------------------------------------------------------
(* Strings                                                                 *)

Lowers == "abcdefghijklmnopqrstuvwxyz"
Uppers == "ABCDEFGHIJKLMNOPQRSTUVWXYZ"
Digits == "0123456789"

CharAt(s, i) == SubSeq(s, i, i)
Chars(s) == {CharAt(s, i) : i \in 1..Len(s)}
IndexIn(c, s) == CHOOSE i \in 1..Len(s) : CharAt(s, i) = c

LowerSet == Chars(Lowers)
UpperSet == Chars(Uppers)
DigitSet == Chars(Digits)
\* \w of Python's re on ASCII text
WordChars == LowerSet \cup UpperSet \cup DigitSet \cup {"_"}
\* \s of Python's re on ASCII text
SpaceChars == {" ", "\t", "\n", "\r", "\f"}

lower_char(c) == IF c \in UpperSet THEN CharAt(Lowers, IndexIn(c, Uppers)) ELSE c
upper_char(c) == IF c \in LowerSet THEN CharAt(Uppers, IndexIn(c, Lowers)) ELSE c

RECURSIVE lower(_)
\* str.lower()
lower(s) == IF s = "" THEN "" ELSE lower_char(CharAt(s, 1)) \o lower(SubSeq(s, 2, Len(s)))

RECURSIVE upper(_)
\* str.upper()
upper(s) == IF s = "" THEN "" ELSE upper_char(CharAt(s, 1)) \o upper(SubSeq(s, 2, Len(s)))

\* Python's `needle in hay` on strings
Contains(hay, needle) ==
    \E i \in 0..(Len(hay) - Len(needle)) : SubSeq(hay, i + 1, i + Len(needle)) = needle

-----------------------------------------------------------------------------
(* Regular expressions: the subset of Python's re the repository uses.     *)
(* A pattern is a tree; Ends(re, s, P) is the set of offsets (0..Len(s))   *)
(* at which a match of re that starts at an offset of P can end.           *)

Inf == -1

Lit(s) == [t |-> "lit", s |-> s]
Cls(cs) == [t |-> "cls", cs |-> cs]
W == Cls(WordChars)
S == Cls(SpaceChars)
Dot == [t |-> "any"]
Bnd == [t |-> "bnd"]
Cat(rs) == [t |-> "cat", rs |-> rs]
Alt(rs) == [t |-> "alt", rs |-> rs]
Rep(r, lo, hi) == [t |-> "rep", r |-> r, lo |-> lo, hi |-> hi]
Star(r) == Rep(r, 0, Inf)
Plus(r) == Rep(r, 1, Inf)
Opt(r) == Rep(r, 0, 1)

IsWordAt(s, i) == i >= 1 /\ i <= Len(s) /\ CharAt(s, i) \in WordChars
\* \b at offset p: exactly one of the characters around p is a word character
IsBoundary(s, p) == IsWordAt(s, p) # IsWordAt(s, p + 1)

RECURSIVE Ends(_, _, _)
RECURSIVE CatEnds(_, _, _, _)
RECURSIVE RepEnds(_, _, _, _, _, _)

Ends(re, s, P) ==
    CASE re.t = "lit" ->
            {p + Len(re.s) : p \in {p \in P : p + Len(re.s) <= Len(s)
                                              /\ SubSeq(s, p + 1, p + Len(re.s)) = re.s}}
      [] re.t = "cls" -> {p + 1 : p \in {p \in P : p < Len(s) /\ CharAt(s, p + 1) \in re.cs}}
      [] re.t = "any" -> {p + 1 : p \in {p \in P : p < Len(s) /\ CharAt(s, p + 1) # "\n"}}
      [] re.t = "bnd" -> {p \in P : IsBoundary(s, p)}
      [] re.t = "cat" -> CatEnds(re.rs, 1, s, P)
      [] re.t = "alt" -> UNION {Ends(re.rs[i], s, P) : i \in DOMAIN re.rs}
      [] re.t = "rep" -> RepEnds(re.r, re.lo, re.hi, s, P, {})

CatEnds(rs, i, s, P) ==
    IF i > Len(rs) \/ P = {} THEN P ELSE CatEnds(rs, i + 1, s, Ends(rs[i], s, P))

\* lo mandatory repetitions, then up to hi (Inf: any number); acc collects the
\* offsets already known to be reachable.
RepEnds(r, lo, hi, s, P, acc) ==
    IF P = {} THEN acc
    ELSE IF lo > 0 THEN RepEnds(r, lo - 1, IF hi = Inf THEN Inf ELSE hi - 1, s, Ends(r, s, P), acc)
    ELSE IF hi = 0 THEN acc \cup P
    ELSE RepEnds(r, 0, IF hi = Inf THEN Inf ELSE hi - 1, s, Ends(r, s, P) \ (acc \cup P), acc \cup P)

\* re.search(pattern, s) is not None
search(re, s) == Ends(re, s, 0..Len(s)) # {}

-----------------------------------------------------------------------------
(* AgentOrchestrator.should_use_agent: the five pattern families           *)

portfolio_patterns == <<
    \* r"analyz\w*\s+(my\s+)?portfolio"
    Cat(<<Lit("analyz"), Star(W), Plus(S), Opt(Cat(<<Lit("my"), Plus(S)>>)), Lit("portfolio")>>),
    \* r"(worst|best|top|losing|winning)\s+(performing\s+)?(stock|holding)"
    Cat(<<Alt(<<Lit("worst"), Lit("best"), Lit("top"), Lit("losing"), Lit("winning")>>), Plus(S), Opt(Cat(<<Lit("performing"), Plus(S)>>)), Alt(<<Lit("stock"), Lit("holding")>>)>>),
    \* r"which\s+(stock|holding).*(worst|best|losing|winning)"
    Cat(<<Lit("which"), Plus(S), Alt(<<Lit("stock"), Lit("holding")>>), Star(Dot), Alt(<<Lit("worst"), Lit("best"), Lit("losing"), Lit("winning")>>)>>),
    \* r"portfolio\s+(analysis|insight|summary)"
    Cat(<<Lit("portfolio"), Plus(S), Alt(<<Lit("analysis"), Lit("insight"), Lit("summary")>>)>>),
    \* r"(deep\s+)?dive\s+(into\s+)?(my\s+)?portfolio"
    Cat(<<Opt(Cat(<<Lit("deep"), Plus(S)>>)), Lit("dive"), Plus(S), Opt(Cat(<<Lit("into"), Plus(S)>>)), Opt(Cat(<<Lit("my"), Plus(S)>>)), Lit("portfolio")>>),
    \* r"(change|performance|return|pnl|p&l|profit|loss)\s+(in|of|for)\s+(my\s+)?portfolio"
    Cat(<<Alt(<<Lit("change"), Lit("performance"), Lit("return"), Lit("pnl"), Lit("p&l"), Lit("profit"), Lit("loss")>>), Plus(S), Alt(<<Lit("in"), Lit("of"), Lit("for")>>), Plus(S), Opt(Cat(<<Lit("my"), Plus(S)>>)), Lit("portfolio")>>),
    \* r"(my\s+)?portfolio.*(change|performance|yesterday|today|week|month)"
    Cat(<<Opt(Cat(<<Lit("my"), Plus(S)>>)), Lit("portfolio"), Star(Dot), Alt(<<Lit("change"), Lit("performance"), Lit("yesterday"), Lit("today"), Lit("week"), Lit("month")>>)>>),
    \* r"how\s+(did|is|has|was)\s+(my\s+)?portfolio"
    Cat(<<Lit("how"), Plus(S), Alt(<<Lit("did"), Lit("is"), Lit("has"), Lit("was")>>), Plus(S), Opt(Cat(<<Lit("my"), Plus(S)>>)), Lit("portfolio")>>),
    \* r"(what|show).*(my\s+)?portfolio.*(change|return|pnl|performance)"
    Cat(<<Alt(<<Lit("what"), Lit("show")>>), Star(Dot), Opt(Cat(<<Lit("my"), Plus(S)>>)), Lit("portfolio"), Star(Dot), Alt(<<Lit("change"), Lit("return"), Lit("pnl"), Lit("performance")>>)>>)
>>

context_patterns == <<
    \* r"why\s+(is|are|did)\s+(my\s+)?(portfolio|stock|market).*(down|up|fall|drop|rise|crash)"
    Cat(<<Lit("why"), Plus(S), Alt(<<Lit("is"), Lit("are"), Lit("did")>>), Plus(S), Opt(Cat(<<Lit("my"), Plus(S)>>)), Alt(<<Lit("portfolio"), Lit("stock"), Lit("market")>>), Star(Dot), Alt(<<Lit("down"), Lit("up"), Lit("fall"), Lit("drop"), Lit("rise"), Lit("crash")>>)>>),
    \* r"what\s+(happened|caused).*(market|portfolio|today)"
    Cat(<<Lit("what"), Plus(S), Alt(<<Lit("happened"), Lit("caused")>>), Star(Dot), Alt(<<Lit("market"), Lit("portfolio"), Lit("today")>>)>>),
    \* r"market\s+(context|overview|summary|update)"
    Cat(<<Lit("market"), Plus(S), Alt(<<Lit("context"), Lit("overview"), Lit("summary"), Lit("update")>>)>>),
    \* r"explain\s+(today|the)\s*(market|movement|change)"
    Cat(<<Lit("explain"), Plus(S), Alt(<<Lit("today"), Lit("the")>>), Star(S), Alt(<<Lit("market"), Lit("movement"), Lit("change")>>)>>),
    \* r"(portfolio|market)\s+(drop|crash|rally|surge)"
    Cat(<<Alt(<<Lit("portfolio"), Lit("market")>>), Plus(S), Alt(<<Lit("drop"), Lit("crash"), Lit("rally"), Lit("surge")>>)>>)
>>

watchlist_patterns == <<
    \* r"watchlist\s*(suggestion|recommend|idea|stock)"
    Cat(<<Lit("watchlist"), Star(S), Alt(<<Lit("suggestion"), Lit("recommend"), Lit("idea"), Lit("stock")>>)>>),
    \* r"(suggest|recommend)\s+(stock|share)s?\s*(to\s+)?(watch|buy|add)"
    Cat(<<Alt(<<Lit("suggest"), Lit("recommend")>>), Plus(S), Alt(<<Lit("stock"), Lit("share")>>), Opt(Lit("s")), Star(S), Opt(Cat(<<Lit("to"), Plus(S)>>)), Alt(<<Lit("watch"), Lit("buy"), Lit("add")>>)>>),
    \* r"what\s+(should|can)\s+i\s+(buy|watch|add)"
    Cat(<<Lit("what"), Plus(S), Alt(<<Lit("should"), Lit("can")>>), Plus(S), Lit("i"), Plus(S), Alt(<<Lit("buy"), Lit("watch"), Lit("add")>>)>>),
    \* r"(stock|share)s?\s+to\s+(watch|buy|add)"
    Cat(<<Alt(<<Lit("stock"), Lit("share")>>), Opt(Lit("s")), Plus(S), Lit("to"), Plus(S), Alt(<<Lit("watch"), Lit("buy"), Lit("add")>>)>>),
    \* r"(build|create|make)\s+(my\s+)?watchlist"
    Cat(<<Alt(<<Lit("build"), Lit("create"), Lit("make")>>), Plus(S), Opt(Cat(<<Lit("my"), Plus(S)>>)), Lit("watchlist")>>),
    \* r"(future|next)\s+(buy|investment|stock)"
    Cat(<<Alt(<<Lit("future"), Lit("next")>>), Plus(S), Alt(<<Lit("buy"), Lit("investment"), Lit("stock")>>)>>),
    \* r"what\s+to\s+(buy|invest|watch)"
    Cat(<<Lit("what"), Plus(S), Lit("to"), Plus(S), Alt(<<Lit("buy"), Lit("invest"), Lit("watch")>>)>>)
>>

fundamental_patterns == <<
    \* r"(is|are)\s+\w+\s+(a\s+)?(good|bad)\s+(buy|stock|investment)"
    Cat(<<Alt(<<Lit("is"), Lit("are")>>), Plus(S), Plus(W), Plus(S), Opt(Cat(<<Lit("a"), Plus(S)>>)), Alt(<<Lit("good"), Lit("bad")>>), Plus(S), Alt(<<Lit("buy"), Lit("stock"), Lit("investment")>>)>>),
    \* r"fundamental(s)?\s+(analysis|of|for)\s+\w+"
    Cat(<<Lit("fundamental"), Opt(Lit("s")), Plus(S), Alt(<<Lit("analysis"), Lit("of"), Lit("for")>>), Plus(S), Plus(W)>>),
    \* r"\w+\s+fundamental(s)?"
    Cat(<<Plus(W), Plus(S), Lit("fundamental"), Opt(Lit("s"))>>),
    \* r"(should\s+i|can\s+i)\s+(buy|invest|hold|sell)\s+\w+"
    Cat(<<Alt(<<Cat(<<Lit("should"), Plus(S), Lit("i")>>), Cat(<<Lit("can"), Plus(S), Lit("i")>>)>>), Plus(S), Alt(<<Lit("buy"), Lit("invest"), Lit("hold"), Lit("sell")>>), Plus(S), Plus(W)>>),
    \* r"(valuation|value)\s+(of|for)\s+\w+"
    Cat(<<Alt(<<Lit("valuation"), Lit("value")>>), Plus(S), Alt(<<Lit("of"), Lit("for")>>), Plus(S), Plus(W)>>),
    \* r"(pe|pb|roe|roce|debt)\s+(ratio\s+)?(of|for)\s+\w+"
    Cat(<<Alt(<<Lit("pe"), Lit("pb"), Lit("roe"), Lit("roce"), Lit("debt")>>), Plus(S), Opt(Cat(<<Lit("ratio"), Plus(S)>>)), Alt(<<Lit("of"), Lit("for")>>), Plus(S), Plus(W)>>),
    \* r"(analyze|check)\s+(the\s+)?(financials|fundamentals)\s+(of|for)\s+\w+"
    Cat(<<Alt(<<Lit("analyze"), Lit("check")>>), Plus(S), Opt(Cat(<<Lit("the"), Plus(S)>>)), Alt(<<Lit("financials"), Lit("fundamentals")>>), Plus(S), Alt(<<Lit("of"), Lit("for")>>), Plus(S), Plus(W)>>),
    \* r"(good|bad)\s+(stock|investment|buy)\s*\?"
    Cat(<<Alt(<<Lit("good"), Lit("bad")>>), Plus(S), Alt(<<Lit("stock"), Lit("investment"), Lit("buy")>>), Star(S), Lit("?")>>),
    \* r"worth\s+(buying|investing)"
    Cat(<<Lit("worth"), Plus(S), Alt(<<Lit("buying"), Lit("investing")>>)>>)
>>

research_patterns == <<
    \* r"(tell|inform)\s+(me\s+)?(about|regarding)\s+\w+"
    Cat(<<Alt(<<Lit("tell"), Lit("inform")>>), Plus(S), Opt(Cat(<<Lit("me"), Plus(S)>>)), Alt(<<Lit("about"), Lit("regarding")>>), Plus(S), Plus(W)>>),
    \* r"research\s+\w+(\s+stock)?"
    Cat(<<Lit("research"), Plus(S), Plus(W), Opt(Cat(<<Plus(S), Lit("stock")>>))>>),
    \* r"(what|how)\s+(is|about)\s+\w+\s*(stock|share|doing)?"
    Cat(<<Alt(<<Lit("what"), Lit("how")>>), Plus(S), Alt(<<Lit("is"), Lit("about")>>), Plus(S), Plus(W), Star(S), Opt(Alt(<<Lit("stock"), Lit("share"), Lit("doing")>>))>>),
    \* r"(analyze|analysis)\s+(of\s+)?\w+\s*(stock)?"
    Cat(<<Alt(<<Lit("analyze"), Lit("analysis")>>), Plus(S), Opt(Cat(<<Lit("of"), Plus(S)>>)), Plus(W), Star(S), Opt(Lit("stock"))>>),
    \* r"\w+\s+(stock|share)\s+(research|analysis|info|details)"
    Cat(<<Plus(W), Plus(S), Alt(<<Lit("stock"), Lit("share")>>), Plus(S), Alt(<<Lit("research"), Lit("analysis"), Lit("info"), Lit("details")>>)>>),
    \* r"(news|update)\s+(on|about|for)\s+\w+"
    Cat(<<Alt(<<Lit("news"), Lit("update")>>), Plus(S), Alt(<<Lit("on"), Lit("about"), Lit("for")>>), Plus(S), Plus(W)>>)
>>

\* the `for pattern in patterns: if re.search(pattern, query_lower)` loop
AnyMatch(patterns, s) == \E i \in DOMAIN patterns : search(patterns[i], s)

\* a classifier that tries the research family first
should_use_agent_research_first(query) ==
    LET query_lower == lower(query) IN
    IF AnyMatch(research_patterns, query_lower) THEN <<TRUE, "stock_research">>
    ELSE IF AnyMatch(portfolio_patterns, query_lower) THEN <<TRUE, "portfolio_analysis">>
    ELSE IF AnyMatch(context_patterns, query_lower) THEN <<TRUE, "market_context">>
    ELSE IF AnyMatch(watchlist_patterns, query_lower) THEN <<TRUE, "watchlist">>
    ELSE IF AnyMatch(fundamental_patterns, query_lower) THEN <<TRUE, "fundamental_analysis">>
    ELSE <<FALSE, None>>

should_use_agent(query) ==
    LET query_lower == lower(query) IN
    IF AnyMatch(portfolio_patterns, query_lower) THEN <<TRUE, "portfolio_analysis">>
    ELSE IF AnyMatch(context_patterns, query_lower) THEN <<TRUE, "market_context">>
    ELSE IF AnyMatch(watchlist_patterns, query_lower) THEN <<TRUE, "watchlist">>
    ELSE IF AnyMatch(fundamental_patterns, query_lower) THEN <<TRUE, "fundamental_analysis">>
    ELSE IF AnyMatch(research_patterns, query_lower) THEN <<TRUE, "stock_research">>
    ELSE <<FALSE, None>>

-----------------------------------------------------------------------------
(* Helpers on Python containers                                            *)

Max(Sx) == CHOOSE x \in Sx : \A y \in Sx : y <= x
Min(Sx) == CHOOSE x \in Sx : \A y \in Sx : x <= y

\* A dict is the sequence of its <<key, value>> items in insertion order.
DictKeys(d) == {d[i][1] : i \in DOMAIN d}
DictGet(d, k) == d[CHOOSE i \in DOMAIN d : d[i][1] = k][2]
\* d[k] = v: an existing key keeps its place, a new key goes last
DictSet(d, k, v) ==
    IF k \in DictKeys(d)
    THEN [i \in DOMAIN d |-> IF d[i][1] = k THEN <<k, v>> ELSE d[i]]
    ELSE Append(d, <<k, v>>)

\* d.update(e) for a dict e: keys of d keep their place and take e's value,
\* the other items of e follow in e's order
DictUpdate(d, e) ==
    LET NewKey(item) == item[1] \notin DictKeys(d) IN
    [i \in DOMAIN d |-> IF d[i][1] \in DictKeys(e) THEN <<d[i][1], DictGet(e, d[i][1])>> ELSE d[i]]
        \o SelectSeq(e, NewKey)

RECURSIVE FindFrom(_, _, _)
\* re.findall(re, s) from offset pos on: leftmost matches, each as long as
\* the pattern allows (the patterns used are one greedy run closed by \b, so
\* the greedy match is the longest one), scanning on from the match's end.
FindFrom(re, s, pos) ==
    LET starts == {p \in pos..Len(s) : Ends(re, s, {p}) # {}} IN
    IF starts = {} THEN <<>>
    ELSE LET p == Min(starts)
             e == Max(Ends(re, s, {p}))
         IN <<SubSeq(s, p + 1, e)>> \o FindFrom(re, s, IF e > p THEN e ELSE p + 1)

findall(re, s) == FindFrom(re, s, 0)

\* first element of seq that satisfies Test, or None
First(seq, Test(_)) ==
    LET I == {i \in DOMAIN seq : Test(seq[i])} IN
    IF I = {} THEN None ELSE seq[Min(I)]

-----------------------------------------------------------------------------
(* stock_research.extract_symbol_from_query                                *)

known_symbols == <<
    "RELIANCE", "TCS", "INFY", "HDFCBANK", "ICICIBANK", "HINDUNILVR",
    "ITC", "SBIN", "BHARTIARTL", "KOTAKBANK", "LT", "AXISBANK",
    "ASIANPAINT", "MARUTI", "TITAN", "SUNPHARMA", "ULTRACEMCO", "WIPRO",
    "HCLTECH", "TECHM", "BAJFINANCE", "BAJAJFINSV", "NESTLEIND",
    "POWERGRID", "NTPC", "ONGC", "TATASTEEL", "JSWSTEEL", "COALINDIA",
    "ADANIENT", "ADANIPORTS", "GABRIEL", "TATAMOTORS", "M&M", "HEROMOTOCO",
    "EICHERMOT", "BAJAJ-AUTO"
>>

\* dict in source order: <<key, value>>
name_to_symbol == <<
    <<"RELIANCE", "RELIANCE">>, <<"TATA CONSULTANCY", "TCS">>,
    <<"INFOSYS", "INFY">>, <<"HDFC BANK", "HDFCBANK">>,
    <<"ICICI BANK", "ICICIBANK">>, <<"HINDUSTAN UNILEVER", "HINDUNILVR">>,
    <<"STATE BANK", "SBIN">>, <<"BHARTI AIRTEL", "BHARTIARTL">>,
    <<"KOTAK", "KOTAKBANK">>, <<"LARSEN", "LT">>,
    <<"AXIS BANK", "AXISBANK">>, <<"ASIAN PAINTS", "ASIANPAINT">>,
    <<"MARUTI", "MARUTI">>, <<"TITAN", "TITAN">>,
    <<"SUN PHARMA", "SUNPHARMA">>, <<"WIPRO", "WIPRO">>,
    <<"HCL", "HCLTECH">>, <<"TECH MAHINDRA", "TECHM">>,
    <<"BAJAJ FINANCE", "BAJFINANCE">>, <<"NESTLE", "NESTLEIND">>,
    <<"TATA STEEL", "TATASTEEL">>, <<"JSW STEEL", "JSWSTEEL">>,
    <<"COAL INDIA", "COALINDIA">>, <<"ADANI", "ADANIENT">>,
    <<"GABRIEL", "GABRIEL">>, <<"TATA MOTORS", "TATAMOTORS">>,
    <<"MAHINDRA", "M&M">>, <<"HERO", "HEROMOTOCO">>,
    <<"EICHER", "EICHERMOT">>, <<"BAJAJ AUTO", "BAJAJ-AUTO">>
>>

\* r'\b[A-Z]{2,}(?:-[A-Z]+)?\b'
SR_word_pattern ==
    Cat(<<Bnd, Rep(Cls(UpperSet), 2, Inf), Opt(Cat(<<Lit("-"), Plus(Cls(UpperSet))>>)), Bnd>>)

SR_skip_words == {"THE", "AND", "FOR", "ABOUT", "WHAT", "TELL", "SHOW", "GET"}

extract_symbol_from_query(query) ==
    LET query_upper == upper(query)
        InQuery(symbol) == Contains(query_upper, symbol)
        known == First(known_symbols, InQuery)
        NotSkipped(word) == word \notin SR_skip_words
        word == First(findall(SR_word_pattern, query_upper), NotSkipped)
        NameInQuery(item) == Contains(query_upper, item[1])
        named == First(name_to_symbol, NameInQuery)
    IN IF known # None THEN known
       ELSE IF word # None THEN word
       ELSE IF named # None THEN named[2]
       ELSE None

-----------------------------------------------------------------------------
(* symbol_tools: manual aliases, the dynamic NSE registry, extract_symbol  *)

\* dict in source order: <<key, value>>
_MANUAL_ALIASES == <<
    <<"reliance", "RELIANCE">>, <<"reliance industries", "RELIANCE">>,
    <<"tcs", "TCS">>, <<"tata consultancy", "TCS">>,
    <<"tata consultancy services", "TCS">>, <<"infosys", "INFY">>,
    <<"infy", "INFY">>, <<"hdfc bank", "HDFCBANK">>,
    <<"hdfc", "HDFCBANK">>, <<"icici bank", "ICICIBANK">>,
    <<"icici", "ICICIBANK">>, <<"sbi", "SBIN">>, <<"state bank", "SBIN">>,
    <<"state bank of india", "SBIN">>, <<"wipro", "WIPRO">>,
    <<"bharti airtel", "BHARTIARTL">>, <<"airtel", "BHARTIARTL">>,
    <<"bharti", "BHARTIARTL">>, <<"kotak", "KOTAKBANK">>,
    <<"kotak bank", "KOTAKBANK">>, <<"kotak mahindra", "KOTAKBANK">>,
    <<"axis bank", "AXISBANK">>, <<"axis", "AXISBANK">>, <<"itc", "ITC">>,
    <<"larsen", "LT">>, <<"larsen & toubro", "LT">>, <<"l&t", "LT">>,
    <<"asian paints", "ASIANPAINT">>, <<"asianpaint", "ASIANPAINT">>,
    <<"maruti", "MARUTI">>, <<"maruti suzuki", "MARUTI">>,
    <<"bajaj finance", "BAJFINANCE">>, <<"bajaj finserv", "BAJAJFINSV">>,
    <<"bajaj auto", "BAJAJ-AUTO">>, <<"hul", "HINDUNILVR">>,
    <<"hindustan unilever", "HINDUNILVR">>, <<"sun pharma", "SUNPHARMA">>,
    <<"sun pharmaceutical", "SUNPHARMA">>, <<"tech mahindra", "TECHM">>,
    <<"techmahindra", "TECHM">>, <<"titan", "TITAN">>,
    <<"titan company", "TITAN">>, <<"adani ports", "ADANIPORTS">>,
    <<"adani green", "ADANIGREEN">>, <<"adani enterprises", "ADANIENT">>,
    <<"adani", "ADANIENT">>, <<"power grid", "POWERGRID">>,
    <<"powergrid", "POWERGRID">>, <<"ntpc", "NTPC">>,
    <<"nestle", "NESTLEIND">>, <<"nestle india", "NESTLEIND">>,
    <<"ultratech", "ULTRACEMCO">>, <<"ultratech cement", "ULTRACEMCO">>,
    <<"tata motors", "TATAMOTORS">>, <<"tata steel", "TATASTEEL">>,
    <<"jio", "JIOFIN">>, <<"jio financial", "JIOFIN">>,
    <<"hcl", "HCLTECH">>, <<"hcl tech", "HCLTECH">>,
    <<"hcl technologies", "HCLTECH">>, <<"ongc", "ONGC">>,
    <<"oil and natural gas", "ONGC">>, <<"coal india", "COALINDIA">>,
    <<"jsw steel", "JSWSTEEL">>, <<"jsw", "JSWSTEEL">>, <<"m&m", "M&M">>,
    <<"mahindra", "M&M">>, <<"mahindra & mahindra", "M&M">>,
    <<"hero motocorp", "HEROMOTOCO">>, <<"hero", "HEROMOTOCO">>,
    <<"eicher motors", "EICHERMOT">>, <<"eicher", "EICHERMOT">>,
    <<"grasim", "GRASIM">>, <<"grasim industries", "GRASIM">>,
    <<"hindalco", "HINDALCO">>, <<"hindalco industries", "HINDALCO">>,
    <<"cipla", "CIPLA">>, <<"dr reddy", "DRREDDY">>,
    <<"dr reddys", "DRREDDY">>, <<"dr reddy's", "DRREDDY">>,
    <<"divis", "DIVISLAB">>, <<"divis lab", "DIVISLAB">>,
    <<"divi's", "DIVISLAB">>, <<"britannia", "BRITANNIA">>,
    <<"apollo hospitals", "APOLLOHOSP">>, <<"apollo", "APOLLOHOSP">>,
    <<"indusind bank", "INDUSINDBK">>, <<"indusind", "INDUSINDBK">>,
    <<"sbi life", "SBILIFE">>, <<"hdfc life", "HDFCLIFE">>,
    <<"tata consumer", "TATACONSUM">>,
    <<"tata consumer products", "TATACONSUM">>, <<"upl", "UPL">>,
    <<"bpcl", "BPCL">>, <<"bharat petroleum", "BPCL">>,
    <<"zomato", "ZOMATO">>, <<"paytm", "PAYTM">>, <<"one97", "PAYTM">>,
    <<"nykaa", "NYKAA">>, <<"fsn e-commerce", "NYKAA">>,
    <<"policybazaar", "POLICYBZR">>, <<"pb fintech", "POLICYBZR">>,
    <<"delhivery", "DELHIVERY">>, <<"vedanta", "VEDL">>,
    <<"vedl", "VEDL">>, <<"tata power", "TATAPOWER">>,
    <<"tata elxsi", "TATAELXSI">>, <<"irctc", "IRCTC">>,
    <<"indian railway", "IRCTC">>, <<"pidilite", "PIDILITIND">>,
    <<"pidilite industries", "PIDILITIND">>, <<"havells", "HAVELLS">>,
    <<"havells india", "HAVELLS">>, <<"dabur", "DABUR">>,
    <<"dabur india", "DABUR">>, <<"marico", "MARICO">>,
    <<"godrej consumer", "GODREJCP">>, <<"godrej", "GODREJCP">>,
    <<"berger paints", "BERGEPAINT">>, <<"berger", "BERGEPAINT">>,
    <<"siemens", "SIEMENS">>, <<"abb", "ABB">>, <<"abb india", "ABB">>,
    <<"page industries", "PAGEIND">>, <<"page", "PAGEIND">>,
    <<"avenue supermarts", "DMART">>, <<"dmart", "DMART">>,
    <<"srf", "SRF">>, <<"muthoot finance", "MUTHOOTFIN">>,
    <<"muthoot", "MUTHOOTFIN">>, <<"bajaj holdings", "BAJAJHLDNG">>,
    <<"icici prudential", "ICICIPRULI">>, <<"icici pru", "ICICIPRULI">>,
    <<"bandhan bank", "BANDHANBNK">>, <<"bandhan", "BANDHANBNK">>,
    <<"idfc first", "IDFCFIRSTB">>, <<"idfc first bank", "IDFCFIRSTB">>,
    <<"yes bank", "YESBANK">>, <<"federal bank", "FEDERALBNK">>,
    <<"iex", "IEX">>, <<"indian energy exchange", "IEX">>,
    <<"cdsl", "CDSL">>, <<"hal", "HAL">>,
    <<"hindustan aeronautics", "HAL">>, <<"bhel", "BHEL">>,
    <<"bharat heavy", "BHEL">>, <<"sail", "SAIL">>,
    <<"steel authority", "SAIL">>, <<"indian oil", "IOC">>,
    <<"ioc", "IOC">>, <<"gail", "GAIL">>, <<"gail india", "GAIL">>,
    <<"gabriel", "GABRIEL">>, <<"gabriel india", "GABRIEL">>,
    <<"lupin", "LUPIN">>, <<"biocon", "BIOCON">>,
    <<"torrent pharma", "TORNTPHARM">>, <<"torrent", "TORNTPHARM">>,
    <<"aurobindo", "AUROPHARMA">>, <<"aurobindo pharma", "AUROPHARMA">>,
    <<"colgate", "COLPAL">>, <<"colgate palmolive", "COLPAL">>,
    <<"indigo", "INDIGO">>, <<"interglobe", "INDIGO">>,
    <<"interglobe aviation", "INDIGO">>, <<"spicejet", "SPICEJET">>
>>

STOPWORDS == {
    "a", "an", "the", "all", "any", "each", "every", "few", "more", "most",
    "no", "other", "some", "such", "this", "that", "these", "those", "am",
    "are", "be", "been", "being", "can", "could", "dare", "did", "do",
    "does", "had", "has", "have", "may", "might", "must", "need", "ought",
    "shall", "should", "used", "was", "were", "will", "would", "about",
    "above", "after", "at", "beneath", "by", "for", "from", "in", "into",
    "of", "on", "over", "regarding", "to", "under", "up", "with", "and",
    "but", "either", "neither", "nor", "or", "so", "yet", "also", "how",
    "just", "now", "only", "same", "than", "too", "very", "when", "where",
    "why", "he", "her", "hers", "herself", "him", "himself", "his", "i",
    "it", "its", "itself", "me", "my", "myself", "our", "ours",
    "ourselves", "she", "their", "theirs", "themselves", "them", "they",
    "us", "we", "you", "your", "yours", "yourself", "yourselves", "what",
    "which", "who", "whom", "ask", "call", "come", "feel", "find", "get",
    "give", "go", "know", "leave", "look", "make", "seem", "see", "show",
    "take", "tell", "think", "try", "use", "want", "work", "bad", "good",
    "analysis", "analyze", "fundamental", "fundamentals", "growth", "hold",
    "invest", "investing", "investment", "market", "opinion", "portfolio",
    "price", "recommend", "recommendation", "research", "sell", "share",
    "shares", "stock", "stocks", "suggest", "thoughts", "value", "view",
    "event", "events", "announcement", "announcements", "corporate",
    "action", "actions", "meeting", "meetings", "dividend", "dividends",
    "merger", "mergers", "acquisition", "acquisitions", "earning", "here",
    "there", "today", "tomorrow", "yesterday", "bse", "exchange", "nifty",
    "nse", "sensex", "help", "please", "thank", "thanks"
}

_COMMON_WORDS == {
    "after", "again", "against", "because", "before", "being", "between",
    "during", "each", "further", "having", "once", "only", "other", "over",
    "same", "should", "such", "through", "under", "until", "very", "while",
    "company", "companies", "business", "industry", "sector", "earnings",
    "profit", "loss", "revenue", "quarter", "year", "month", "week", "day",
    "time", "money", "percent", "percentage", "increase", "decrease",
    "rise", "fall", "drop", "gain", "down", "high", "low", "best", "worst",
    "top", "bottom", "first", "last", "next", "previous", "current",
    "recent", "latest", "new", "old", "big", "small", "large", "long",
    "short", "term"
}

\* What the exchange's EQUITY_L.csv lists, as {SYMBOL: company name} items.
NSE_LISTING == <<
    <<"RELIANCE", "Reliance Industries Limited">>,
    <<"TCS", "Tata Consultancy Services Limited">>,
    <<"ZOMATO", "Zomato Limited">>,
    <<"3MINDIA", "3M India Limited">>
>>

\* r"\s+(limited|ltd\.?|industries limited|india limited|corporation limited)$"
\* ($ is checked by the caller: the match has to end at the end of the name)
company_suffix ==
    Cat(<<Plus(S), Alt(<<Lit("limited"), Cat(<<Lit("ltd"), Opt(Lit("."))>>),
                         Lit("industries limited"), Lit("india limited"),
                         Lit("corporation limited")>>)>>)

\* re.sub(company_suffix, "", name_lower): the leftmost match that reaches
\* the end of the name is cut off
strip_suffix(name_lower) ==
    LET starts == {p \in 0..Len(name_lower) :
                      Len(name_lower) \in Ends(company_suffix, name_lower, {p})}
    IN IF starts = {} THEN name_lower ELSE SubSeq(name_lower, 1, Min(starts))

EmptyRegistry == [loaded |-> FALSE, symbols |-> {}, names |-> <<>>]

RECURSIVE populate(_, _, _)
\* the `for symbol, company_name in data.items()` loop of _load_nse_symbols
populate(reg, data, i) ==
    IF i > Len(data) THEN reg
    ELSE LET symbol == data[i][1]
             name_lower == lower(data[i][2])
             n1 == DictSet(reg.names, name_lower, symbol)
             n2 == DictSet(n1, lower(symbol), symbol)
             short == strip_suffix(name_lower)
             n3 == IF short # name_lower /\ short \notin DictKeys(n2)
                   THEN DictSet(n2, short, symbol) ELSE n2
         IN populate([reg EXCEPT !.symbols = @ \cup {symbol}, !.names = n3], data, i + 1)

\* _load_nse_symbols with the cache file holding `cached` (None: missing,
\* stale or unreadable), the exchange answering `fetched` (<<>>: the fetch
\* failed) and the cache write succeeding or not.  Gives the registry, the
\* cache file and whether the exchange was asked.
load_nse_symbols(reg, cached, fetched, write_ok) ==
    IF reg.loaded THEN [reg |-> reg, cache |-> cached, fetches |-> 0]
    ELSE LET data == IF cached # None THEN cached ELSE fetched
             cache2 == IF cached = None /\ fetched # <<>> /\ write_ok THEN fetched ELSE cached
             nf == IF cached = None THEN 1 ELSE 0
         IN IF data = <<>>
            THEN [reg |-> [reg EXCEPT !.loaded = TRUE], cache |-> cache2, fetches |-> nf]
            ELSE [reg |-> [populate(reg, data, 1) EXCEPT !.loaded = TRUE],
                  cache |-> cache2, fetches |-> nf]

\* refresh_nse_symbols without the two clear() calls
refresh_nse_symbols_keeping(reg, cached, unlink_ok, fetched, write_ok) ==
    LET loaded == load_nse_symbols([reg EXCEPT !.loaded = FALSE],
                                   IF unlink_ok THEN None ELSE cached, fetched, write_ok)
    IN [reg |-> loaded.reg, cache |-> loaded.cache, fetches |-> loaded.fetches,
        count |-> Cardinality(loaded.reg.symbols)]

\* refresh_nse_symbols on registry `reg` with the cache file holding `cached`:
\* the flag is unset, both lookups are cleared, the cache file is unlinked
\* (a failure of the unlink is swallowed and leaves the file), then
\* _load_nse_symbols runs; `count` is the returned len(_nse_symbols)
refresh_nse_symbols(reg, cached, unlink_ok, fetched, write_ok) ==
    LET loaded == load_nse_symbols(EmptyRegistry, IF unlink_ok THEN None ELSE cached,
                                   fetched, write_ok)
    IN [reg |-> loaded.reg, cache |-> loaded.cache, fetches |-> loaded.fetches,
        count |-> Cardinality(loaded.reg.symbols)]

\* is_valid_symbol(symbol) once _load_nse_symbols has left registry `reg`
is_valid_symbol(symbol, reg) == upper(symbol) \in reg.symbols

\* merged = dict(_nse_name_to_symbol); merged.update(_MANUAL_ALIASES)
get_name_to_symbol(reg) == DictUpdate(reg.names, _MANUAL_ALIASES)

\* r"\b(?:NSE|BSE):([A-Z][A-Z0-9&-]{1,14})\b" with re.IGNORECASE: matched
\* on the upper-cased query, which is the same for ASCII text
SymbolChars == UpperSet \cup DigitSet \cup {"&", "-"}
exchange_pattern ==
    Cat(<<Bnd, Alt(<<Lit("NSE"), Lit("BSE")>>), Lit(":"),
          Cls(UpperSet), Rep(Cls(SymbolChars), 1, 14), Bnd>>)

\* exchange_match.group(1).upper(), or None
exchange_match(query) ==
    LET s == upper(query)
        starts == {p \in 0..Len(s) : Ends(exchange_pattern, s, {p}) # {}}
    IN IF starts = {} THEN None
       ELSE LET p == Min(starts) IN SubSeq(s, p + 5, Max(Ends(exchange_pattern, s, {p})))

\* r"\b([A-Z][A-Z0-9&-]{1,14})\b"
upper_word_pattern == Cat(<<Bnd, Cls(UpperSet), Rep(Cls(SymbolChars), 1, 14), Bnd>>)
\* r"\b([a-zA-Z][a-zA-Z0-9&-]{1,14})\b"
any_word_pattern ==
    Cat(<<Bnd, Cls(UpperSet \cup LowerSet), Rep(Cls(SymbolChars \cup LowerSet), 1, 14), Bnd>>)

\* Strategy 1 without the sort: the first key of the dict found in the query
longest_alias_unsorted(name_map, query_lower) ==
    LET hits == {i \in DOMAIN name_map : Contains(query_lower, name_map[i][1])} IN
    IF hits = {} THEN None ELSE name_map[Min(hits)][2]

\* Strategy 1: `for name in sorted(name_map.keys(), key=len, reverse=True):
\* if name in query_lower: return name_map[name]`.  The sort is stable, so
\* the first hit is the longest key found in the query and, among keys of
\* that length, the one that comes first in the dict.
longest_alias(name_map, query_lower) ==
    LET hits == {i \in DOMAIN name_map : Contains(query_lower, name_map[i][1])} IN
    IF hits = {} THEN None
    ELSE LET longest == Max({Len(name_map[i][1]) : i \in hits})
         IN name_map[Min({i \in hits : Len(name_map[i][1]) = longest})][2]

\* whether extract_symbol gets as far as _get_name_to_symbol (and so loads
\* the registry)
needs_registry(query) == query # "" /\ exchange_match(query) = None

\* extract_symbol, reg being the registry after _get_name_to_symbol's load
extract_symbol(query, reg) ==
    IF query = "" THEN None
    ELSE IF exchange_match(query) # None THEN exchange_match(query)
    ELSE
    LET query_lower == lower(query)
        alias == longest_alias(get_name_to_symbol(reg), query_lower)
        words_upper == findall(upper_word_pattern, query)
        Listed(word) == word \in reg.symbols /\ lower(word) \notin STOPWORDS
        listed == First(words_upper, Listed)
        NotStop(word) == lower(word) \notin STOPWORDS
        shouted == First(words_upper, NotStop)
        Candidate(word) ==
            /\ lower(word) \notin STOPWORDS
            /\ Len(word) >= 2
            /\ (CharAt(word, 1) \in UpperSet \/ lower(word) \notin _COMMON_WORDS)
        guess == First(findall(any_word_pattern, query), Candidate)
    IN IF alias # None THEN alias
       ELSE IF listed # None THEN listed
       ELSE IF shouted # None THEN shouted
       ELSE IF guess # None THEN upper(guess)
       ELSE None

-----------------------------------------------------------------------------
(* Python values                                                           *)

\* None in a field that holds an object (a dict or a dataclass)
NoneObj == <<>>

\* truth value of a str | None
TruthyStr(s) == s # None /\ s # ""
\* truth value of a list, a dict or an object | None
TruthyObj(x) == DOMAIN x # {}

\* d.get(k, default)
Get(d, k, default) == IF k \in DOMAIN d THEN d[k] ELSE default

RECURSIVE sum(_)
\* sum(numbers) for a list of numbers
sum(numbers) == IF numbers = <<>> THEN 0 ELSE Head(numbers) + sum(Tail(numbers))

RECURSIVE Join(_, _)
\* sep.join(seq)
Join(sep, seq) ==
    IF Len(seq) = 0 THEN ""
    ELSE IF Len(seq) = 1 THEN seq[1]
    ELSE seq[1] \o sep \o Join(sep, Tail(seq))

-----------------------------------------------------------------------------
(* Collaborators: what a call can come back with.  A call either returns   *)
(* a value (kind "ok") or raises (kind "raise", with the exception's text) *)

Holding(symbol, quantity, average_price, last_price, pnl, day_change_percentage) ==
    [tradingsymbol |-> symbol, quantity |-> quantity, average_price |-> average_price,
     last_price |-> last_price, pnl |-> pnl,
     day_change_percentage |-> day_change_percentage, day_change |-> day_change_percentage]

\* one holding the user also asks about
HOLDINGS_ONE == <<Holding("TCS", 10, 100, 110, 100, 2)>>
\* returns of 10%, -5%, 0% and -20%
HOLDINGS_FOUR == <<Holding("TCS", 10, 100, 110, 100, 2),
                   Holding("INFY", 20, 100, 95, -100, -4),
                   Holding("RELIANCE", 5, 100, 100, 0, 0),
                   Holding("SBIN", 10, 100, 80, -200, 1)>>

Ok(value) == [kind |-> "ok", auth |-> FALSE, msg |-> "", value |-> value]
\* `value` is a value of the type the call returns, and is not looked at
Raise(auth, msg, value) == [kind |-> "raise", auth |-> auth, msg |-> msg, value |-> value]

\* KiteClient.get_holdings: a list of holdings, AuthenticationError, or any
\* other exception (whose text may be empty)
GetHoldingsOutcomes ==
    {Ok(<<>>), Ok(HOLDINGS_ONE), Ok(HOLDINGS_FOUR),
     Raise(TRUE, "Not logged in. Run 'login' first.", <<>>),
     Raise(FALSE, "Connection refused", <<>>), Raise(FALSE, "", <<>>)}

\* the quote dict of one instrument
Quote(instrument) ==
    [instrument |-> instrument, last_price |-> 110, change |-> 2, change_percent |-> 2]
\* KiteClient.get_quotes(["NSE:X", "BSE:X"]): which of the two instruments
\* the answer holds, or an exception
GetQuotesOutcomes == {Ok({}), Ok({"NSE"}), Ok({"BSE"}), Ok({"NSE", "BSE"}), Raise(FALSE, "timeout", {})}

Article(symbol) ==
    [symbol |-> symbol, title |-> "Quarterly results", content |-> "...",
     source |-> "moneycontrol", url |-> "https://example.com/a", score |-> 1]
\* ensure_news_indexed followed by search_stock_news: the retriever finds
\* nothing, finds an article for the first symbol, or one of the two raises
NewsOutcomes == {Ok(FALSE), Ok(TRUE), Raise(FALSE, "vector store unavailable", FALSE)}

\* LLM completion: a text, an empty text, or an exception
LLM_TEXT == "LLM text"
LlmOutcomes == {Ok(LLM_TEXT), Ok(""), Raise(FALSE, "API error", "")}

\* the collaborator calls a node makes are logged under these names
CallNames == {"get_holdings", "get_quotes", "ensure_news_indexed", "search_stock_news",
              "retriever.search", "get_stock_fundamentals", "llm"}

\* what a node function does: the partial update it returns, the
\* collaborator calls it made, and whether an exception left it
Returned(update, calls) == [update |-> update, calls |-> calls, raised |-> FALSE]
Raised(calls) == [update |-> <<>>, calls |-> calls, raised |-> TRUE]

-----------------------------------------------------------------------------
(* tools/portfolio_tools.py and tools/news_tools.py                        *)

\* fetch_holdings(client), `outcome` being what client.get_holdings() does
fetch_holdings(outcome) ==
    IF outcome.kind = "ok" THEN
        IF outcome.value = <<>>
        THEN [holdings |-> <<>>, total_value |-> 0, total_pnl |-> 0, error |-> None]
        ELSE LET holdings == outcome.value IN
             [holdings |-> holdings,
              total_value |-> sum([i \in DOMAIN holdings |->
                                      holdings[i].quantity * holdings[i].last_price]),
              total_pnl |-> sum([i \in DOMAIN holdings |-> holdings[i].pnl]),
              error |-> None]
    ELSE IF outcome.auth
    THEN [holdings |-> <<>>, total_value |-> 0, total_pnl |-> 0,
          error |-> "Not logged in. Please run 'login' first."]
    ELSE [holdings |-> <<>>, total_value |-> 0, total_pnl |-> 0, error |-> outcome.msg]

\* the per-holding dict analyze_performers builds
analyzed_holding(h) ==
    [symbol |-> h.tradingsymbol, quantity |-> h.quantity, average_price |-> h.average_price,
     last_price |-> h.last_price, pnl |-> h.pnl,
     return_pct |-> IF h.average_price > 0
                    THEN ((h.last_price - h.average_price) * 100) \div h.average_price
                    ELSE 0,
     day_change_pct |-> h.day_change_percentage]

\* list.sort(): stable.  Before(a, b) iff a has to come before b; an item
\* goes behind the items that come before it and behind the earlier items
\* that it does not come before.
StableSort(seq, Before(_, _)) ==
    LET rank(i) == 1 + Cardinality({j \in DOMAIN seq :
                        \/ Before(seq[j], seq[i])
                        \/ (~Before(seq[i], seq[j]) /\ j < i)})
    IN [k \in DOMAIN seq |-> seq[CHOOSE i \in DOMAIN seq : rank(i) = k]]

\* analyze_performers cutting the list before it sorts
analyze_performers_truncating_first(holdings, analysis_type, top_n) ==
    IF holdings = <<>> THEN <<>>
    ELSE LET analyzed == [i \in DOMAIN holdings |-> analyzed_holding(holdings[i])]
             Asc(a, b) == a.return_pct < b.return_pct
             Desc(a, b) == a.return_pct > b.return_pct
             first == SubSeq(analyzed, 1,
                             IF Len(analyzed) < top_n THEN Len(analyzed) ELSE top_n)
         IN IF analysis_type = "worst" THEN StableSort(first, Asc)
            ELSE IF analysis_type = "best" THEN StableSort(first, Desc)
            ELSE first

analyze_performers(holdings, analysis_type, top_n) ==
    IF holdings = <<>> THEN <<>>
    ELSE LET analyzed == [i \in DOMAIN holdings |-> analyzed_holding(holdings[i])]
             Asc(a, b) == a.return_pct < b.return_pct
             Desc(a, b) == a.return_pct > b.return_pct
             sorted == IF analysis_type = "worst" THEN StableSort(analyzed, Asc)
                       ELSE IF analysis_type = "best" THEN StableSort(analyzed, Desc)
                       ELSE analyzed
         IN SubSeq(sorted, 1, IF Len(sorted) < top_n THEN Len(sorted) ELSE top_n)

\* search_stock_news(symbols): the article dicts of the symbols the
\* retriever has something for
search_stock_news(symbols, found) ==
    IF found /\ symbols # <<>> THEN <<Article(symbols[1])>> ELSE <<>>

\* `await ensure_news_indexed(symbols)` and then `search_stock_news(symbols)`
\* outside any try: the articles and the calls made, or the exception
news_lookup(symbols, news) ==
    IF news.kind = "raise"
    THEN [raised |-> TRUE, articles |-> <<>>, calls |-> <<"ensure_news_indexed">>]
    ELSE [raised |-> FALSE, articles |-> search_stock_news(symbols, news.value),
          calls |-> <<"ensure_news_indexed", "search_stock_news">>]

-----------------------------------------------------------------------------
(* The LangGraph engine, as far as the workflows use it                    *)

END == "__end__"

\* merge_update with every key replaced, the accumulating ones included
merge_update_replacing(state, update, add_keys) ==
    [k \in DOMAIN state \cup DOMAIN update |->
        IF k \notin DOMAIN update THEN state[k] ELSE update[k]]

\* Merge of a node's partial update into the state of a TypedDict schema:
\* keys annotated with operator.add accumulate, every other key is replaced.
merge_update(state, update, add_keys) ==
    [k \in DOMAIN state \cup DOMAIN update |->
        IF k \notin DOMAIN update THEN state[k]
        ELSE IF k \in add_keys /\ k \in DOMAIN state THEN state[k] \o update[k]
        ELSE update[k]]

\* StateGraph(dict): the schema has no annotations, so the state is one
\* channel and what a node returns becomes the state.
root_update(state, update) == update

\* the node that runs after `name`: a conditional edge maps the router's
\* answer (computed on the merged state) to a node, a plain edge is followed
next_node(graph, name, route) ==
    IF name \in DOMAIN graph.conditional THEN graph.conditional[name][route]
    ELSE graph.edges[name]

-----------------------------------------------------------------------------
(* workflows/portfolio_analysis.py                                         *)

\* PortfolioState: steps_completed is Annotated[list, operator.add]
PortfolioState_add == {"steps_completed"}

PA_fetch_portfolio_node(state, holdings_outcome) ==
    LET result == fetch_holdings(holdings_outcome) IN
    IF TruthyStr(result.error)
    THEN Returned([error |-> result.error, steps_completed |-> <<"fetch_portfolio">>],
                  <<"get_holdings">>)
    ELSE Returned([holdings |-> result.holdings, total_value |-> result.total_value,
                   total_pnl |-> result.total_pnl,
                   steps_completed |-> <<"fetch_portfolio">>],
                  <<"get_holdings">>)

PA_analyze_performers_node(state) ==
    LET holdings == Get(state, "holdings", <<>>)
        analysis_type == Get(state, "analysis_type", "worst")
    IN IF ~TruthyObj(holdings)
       THEN Returned([target_stocks |-> <<>>, steps_completed |-> <<"analyze_performers">>], <<>>)
       ELSE Returned([target_stocks |-> analyze_performers(holdings, analysis_type, 3),
                      steps_completed |-> <<"analyze_performers">>], <<>>)

PA_fetch_news_node(state, news_outcome) ==
    LET target_stocks == Get(state, "target_stocks", <<>>) IN
    IF ~TruthyObj(target_stocks)
    THEN Returned([news_context |-> <<>>, steps_completed |-> <<"fetch_news">>], <<>>)
    ELSE LET symbols == [i \in DOMAIN target_stocks |-> target_stocks[i].symbol]
             found == news_lookup(symbols, news_outcome)
         IN IF found.raised THEN Raised(found.calls)
            ELSE Returned([news_context |-> found.articles,
                           steps_completed |-> <<"fetch_news">>], found.calls)

PA_generate_insights_node(state, llm_outcome) ==
    LET holdings == Get(state, "holdings", <<>>) IN
    IF TruthyStr(Get(state, "error", None))
    THEN Returned([insights |-> "Unable to analyze portfolio: " \o state["error"],
                   steps_completed |-> <<"generate_insights">>], <<>>)
    ELSE IF ~TruthyObj(holdings)
    THEN Returned([insights |-> "No holdings found in your portfolio.",
                   steps_completed |-> <<"generate_insights">>], <<>>)
    ELSE LET insights ==
                 IF llm_outcome.kind = "raise"
                 THEN "Error generating insights: " \o llm_outcome.msg
                 ELSE IF llm_outcome.value = "" THEN "Error: Empty response from AI model"
                 ELSE llm_outcome.value
         IN Returned([insights |-> insights, steps_completed |-> <<"generate_insights">>],
                     <<"llm">>)

PA_should_continue(state) ==
    IF TruthyStr(Get(state, "error", None)) THEN "generate_insights" ELSE "continue"

create_portfolio_analysis_graph ==
    [entry |-> "fetch_portfolio",
     conditional |-> [fetch_portfolio |-> [continue |-> "analyze_performers",
                                           generate_insights |-> "generate_insights"]],
     edges |-> [analyze_performers |-> "fetch_news", fetch_news |-> "generate_insights",
                generate_insights |-> END]]

\* detect_analysis_type with the two keyword tests in the other order
detect_analysis_type_best_first(query) ==
    LET query_lower == lower(query)
        AnyIn(words) == \E i \in DOMAIN words : Contains(query_lower, words[i])
    IN IF AnyIn(<<"best", "top", "winning", "gain", "up", "good">>) THEN "best"
       ELSE IF AnyIn(<<"worst", "losing", "loss", "down", "decline", "poor">>) THEN "worst"
       ELSE "worst"

\* PortfolioAnalysisAgent.detect_analysis_type
detect_analysis_type(query) ==
    LET query_lower == lower(query)
        AnyIn(words) == \E i \in DOMAIN words : Contains(query_lower, words[i])
    IN IF AnyIn(<<"worst", "losing", "loss", "down", "decline", "poor">>) THEN "worst"
       ELSE IF AnyIn(<<"best", "top", "winning", "gain", "up", "good">>) THEN "best"
       ELSE "worst"

\* PortfolioAnalysisAgent.analyze: the state the graph is invoked with
PA_initial_state(query, analysis_type) ==
    [query |-> query, analysis_type |-> analysis_type, holdings |-> <<>>,
     total_value |-> 0, total_pnl |-> 0, target_stocks |-> <<>>, news_context |-> <<>>,
     insights |-> "", error |-> None, steps_completed |-> <<>>]

\* PortfolioAnalysisAgent.analyze: what it hands back from the final state
PA_result(final_state) == Get(final_state, "insights", "No insights generated.")

-----------------------------------------------------------------------------
(* workflows/stock_research.py                                             *)

\* the first holding whose tradingsymbol.upper() equals symbol.upper()
find_holding(holdings, symbol) ==
    LET hits == {i \in DOMAIN holdings : upper(holdings[i].tradingsymbol) = upper(symbol)}
    IN IF hits = {} THEN NoneObj ELSE holdings[Min(hits)]

SR_steps(state, name) == Get(state, "steps_completed", <<>>) \o <<name>>

\* extract_symbol_node; `symbol_found` is what extract_symbol_from_query(query)
\* gives
SR_extract_symbol_node(state, symbol_found) ==
    LET given == Get(state, "symbol", "")
        symbol == IF ~TruthyStr(given) THEN symbol_found ELSE given
    IN IF ~TruthyStr(symbol)
       THEN Returned([error |-> "Could not identify stock symbol from query. Please specify a stock symbol.",
                      steps_completed |-> SR_steps(state, "extract_symbol")], <<>>)
       ELSE Returned([symbol |-> upper(symbol),
                      steps_completed |-> SR_steps(state, "extract_symbol")], <<>>)

\* check_holdings_node reporting a failed get_holdings in the error field
SR_check_holdings_node_reporting(state, holdings_outcome) ==
    IF holdings_outcome.kind = "ok"
    THEN Returned([holdings_position |-> find_holding(holdings_outcome.value,
                                                      Get(state, "symbol", "")),
                   steps_completed |-> SR_steps(state, "check_holdings")], <<"get_holdings">>)
    ELSE Returned([error |-> "Failed to fetch holdings: " \o holdings_outcome.msg,
                   steps_completed |-> SR_steps(state, "check_holdings")], <<"get_holdings">>)

SR_check_holdings_node(state, holdings_outcome) ==
    LET symbol == Get(state, "symbol", "") IN
    IF holdings_outcome.kind = "ok"
    THEN Returned([holdings_position |-> find_holding(holdings_outcome.value, symbol),
                   steps_completed |-> SR_steps(state, "check_holdings")], <<"get_holdings">>)
    ELSE Returned([holdings_position |-> NoneObj,
                   steps_completed |-> SR_steps(state, "check_holdings")], <<"get_holdings">>)

SR_get_price_node(state, quotes_outcome) ==
    LET symbol == Get(state, "symbol", "")
        current_price ==
            IF quotes_outcome.kind = "raise" THEN NoneObj
            ELSE IF "NSE" \in quotes_outcome.value THEN Quote("NSE:" \o symbol)
            ELSE IF "BSE" \in quotes_outcome.value THEN Quote("BSE:" \o symbol)
            ELSE NoneObj
    IN Returned([current_price |-> current_price,
                 steps_completed |-> SR_steps(state, "get_price")], <<"get_quotes">>)

SR_fetch_news_node(state, news_outcome) ==
    LET symbol == Get(state, "symbol", "") IN
    IF ~TruthyStr(symbol)
    THEN Returned([news_articles |-> <<>>, steps_completed |-> SR_steps(state, "fetch_news")], <<>>)
    ELSE LET found == news_lookup(<<symbol>>, news_outcome)
         IN IF found.raised THEN Raised(found.calls)
            ELSE Returned([news_articles |-> found.articles,
                           steps_completed |-> SR_steps(state, "fetch_news")], found.calls)

SR_generate_report_node(state, llm_outcome) ==
    IF TruthyStr(Get(state, "error", None))
    THEN Returned([research_report |-> "Unable to research: " \o state["error"],
                   steps_completed |-> SR_steps(state, "generate_report")], <<>>)
    ELSE LET report == IF llm_outcome.kind = "raise"
                       THEN "Error generating report: " \o llm_outcome.msg
                       ELSE llm_outcome.value
         IN Returned([research_report |-> report,
                      steps_completed |-> SR_steps(state, "generate_report")], <<"llm">>)

\* a router that ignores the error field
SR_should_continue_always(state) == "continue"

SR_should_continue(state) ==
    IF TruthyStr(Get(state, "error", None)) THEN "generate_report" ELSE "continue"

create_stock_research_graph ==
    [entry |-> "extract_symbol",
     conditional |-> [extract_symbol |-> [continue |-> "check_holdings",
                                          generate_report |-> "generate_report"]],
     edges |-> [check_holdings |-> "get_price", get_price |-> "fetch_news",
                fetch_news |-> "generate_report", generate_report |-> END]]

\* StockResearchAgent.research (the orchestrator passes no symbol)
SR_initial_state(query, symbol) ==
    [query |-> query, symbol |-> IF TruthyStr(symbol) THEN symbol ELSE "",
     holdings_position |-> NoneObj, current_price |-> NoneObj, news_articles |-> <<>>,
     research_report |-> "", error |-> None, steps_completed |-> <<>>]

SR_result(final_state) == Get(final_state, "research_report", "No report generated.")

-----------------------------------------------------------------------------
(* workflows/market_context.py                                             *)

\* MarketContextState: steps_completed is Annotated[list, operator.add]
MarketContextState_add == {"steps_completed"}

Abs(n) == IF n < 0 THEN -n ELSE n

MC_fetch_portfolio_pnl_node(state, holdings_outcome) ==
    IF holdings_outcome.kind = "raise"
    THEN Returned([error |-> "Failed to fetch portfolio: " \o holdings_outcome.msg,
                   steps_completed |-> <<"fetch_portfolio">>], <<"get_holdings">>)
    ELSE LET holdings == holdings_outcome.value
             value == [i \in DOMAIN holdings |-> holdings[i].quantity * holdings[i].last_price]
             pnl == [i \in DOMAIN holdings |-> holdings[i].pnl]
             day_pnl == [i \in DOMAIN holdings |->
                            IF holdings[i].day_change # 0
                            THEN holdings[i].day_change * holdings[i].quantity ELSE 0]
         IN IF ~TruthyObj(holdings)
            THEN Returned([error |-> "No holdings found in portfolio.",
                           steps_completed |-> <<"fetch_portfolio">>], <<"get_holdings">>)
            ELSE Returned([portfolio_pnl |->
                               [holdings |-> holdings, total_value |-> sum(value),
                                total_pnl |-> sum(pnl), day_pnl |-> sum(day_pnl),
                                num_holdings |-> Len(holdings)],
                           steps_completed |-> <<"fetch_portfolio">>], <<"get_holdings">>)

\* the dict identify_movers_node builds for a holding
mover(h) ==
    [symbol |-> h.tradingsymbol, day_change_pct |-> h.day_change_percentage,
     last_price |-> h.last_price, quantity |-> h.quantity, total_pnl |-> h.pnl,
     day_impact |-> IF h.last_price # 0
                    THEN (h.day_change_percentage * h.quantity * h.last_price) \div 100
                    ELSE 0]

MC_identify_movers_node(state) ==
    LET portfolio_pnl == Get(state, "portfolio_pnl", NoneObj)
        holdings == IF TruthyObj(portfolio_pnl) THEN Get(portfolio_pnl, "holdings", <<>>) ELSE <<>>
        Bigger(a, b) == Abs(a.day_change_pct) > Abs(b.day_change_pct)
    IN IF ~TruthyObj(holdings)
       THEN Returned([movers |-> <<>>, steps_completed |-> <<"identify_movers">>], <<>>)
       ELSE LET movers == StableSort([i \in DOMAIN holdings |-> mover(holdings[i])], Bigger)
            IN Returned([movers |-> SubSeq(movers, 1, Min({5, Len(movers)})),
                         steps_completed |-> <<"identify_movers">>], <<>>)

RECURSIVE unique_by_title(_, _, _)
\* the items of `news` whose title was not seen before, in order
unique_by_title(news, seen_titles, unique_news) ==
    IF news = <<>> THEN unique_news
    ELSE IF Head(news).title \in seen_titles
    THEN unique_by_title(Tail(news), seen_titles, unique_news)
    ELSE unique_by_title(Tail(news), seen_titles \cup {Head(news).title},
                         Append(unique_news, Head(news)))

market_terms == <<"market", "nifty", "sensex", "sector", "FII", "DII">>

\* retriever.search(term, top_k=2) for every market term: nothing, or the
\* same market article for each of them
market_search(found) ==
    IF found
    THEN [i \in DOMAIN market_terms |->
             [symbol |-> upper(market_terms[i]), title |-> "Market wrap", content |-> "...",
              source |-> "economictimes", url |-> "https://example.com/m", score |-> 1]]
    ELSE <<>>

MC_fetch_market_news_node(state, news_outcome, market_outcome) ==
    LET movers == Get(state, "movers", <<>>)
        top == SubSeq(movers, 1, Min({3, Len(movers)}))
        symbols == IF top = <<>> THEN <<"NIFTY", "SENSEX">>
                   ELSE [i \in DOMAIN top |-> top[i].symbol]
        found == news_lookup(symbols, news_outcome)
    IN IF found.raised THEN Raised(found.calls)
       ELSE IF market_outcome.kind = "raise" THEN Raised(found.calls \o <<"retriever.search">>)
       ELSE LET all_news == found.articles \o market_search(market_outcome.value)
                unique_news == unique_by_title(all_news, {}, <<>>)
            IN Returned([market_news |-> SubSeq(unique_news, 1, Min({8, Len(unique_news)})),
                         steps_completed |-> <<"fetch_news">>],
                        found.calls \o [i \in DOMAIN market_terms |-> "retriever.search"])

MC_generate_context_node(state, llm_outcome) ==
    IF TruthyStr(Get(state, "error", None))
    THEN Returned([context_report |-> "Unable to analyze: " \o state["error"],
                   steps_completed |-> <<"generate_context">>], <<>>)
    ELSE LET report ==
                 IF llm_outcome.kind = "raise"
                 THEN "Error generating context: " \o llm_outcome.msg
                 ELSE IF llm_outcome.value = "" THEN "Error: Empty response from AI model"
                 ELSE llm_outcome.value
         IN Returned([context_report |-> report, steps_completed |-> <<"generate_context">>],
                     <<"llm">>)

\* should_continue without its error test
MC_should_continue_always(state) == "continue"

MC_should_continue(state) ==
    IF TruthyStr(Get(state, "error", None)) THEN "generate_context" ELSE "continue"

\* a graph that ends after the news node
create_market_context_graph_ends_at_news ==
    [entry |-> "fetch_portfolio",
     conditional |-> [fetch_portfolio |-> [continue |-> "identify_movers",
                                           generate_context |-> "generate_context"]],
     edges |-> [identify_movers |-> "fetch_news", fetch_news |-> END,
                generate_context |-> END]]

create_market_context_graph ==
    [entry |-> "fetch_portfolio",
     conditional |-> [fetch_portfolio |-> [continue |-> "identify_movers",
                                           generate_context |-> "generate_context"]],
     edges |-> [identify_movers |-> "fetch_news", fetch_news |-> "generate_context",
                generate_context |-> END]]

\* MarketContextAgent.explain
MC_initial_state(query) ==
    [query |-> query, portfolio_pnl |-> NoneObj, movers |-> <<>>, market_news |-> <<>>,
     context_report |-> "", error |-> None, steps_completed |-> <<>>]

MC_result(final_state) == Get(final_state, "context_report", "No context generated.")

-----------------------------------------------------------------------------
(* workflows/watchlist_suggestion.py                                       *)

\* WatchlistState: steps_completed is Annotated[list, operator.add]
WatchlistState_add == {"steps_completed"}

\* dict in source order: <<key, value>>
STOCK_SECTORS == <<
    <<"TCS", "IT">>, <<"INFY", "IT">>, <<"WIPRO", "IT">>,
    <<"HCLTECH", "IT">>, <<"TECHM", "IT">>, <<"LTIM", "IT">>,
    <<"HDFCBANK", "Banking">>, <<"ICICIBANK", "Banking">>,
    <<"SBIN", "Banking">>, <<"KOTAKBANK", "Banking">>,
    <<"AXISBANK", "Banking">>, <<"INDUSINDBK", "Banking">>,
    <<"BANDHANBNK", "Banking">>, <<"BAJFINANCE", "NBFC">>,
    <<"BAJAJFINSV", "NBFC">>, <<"HDFC", "NBFC">>, <<"TATAMOTORS", "Auto">>,
    <<"M&M", "Auto">>, <<"MARUTI", "Auto">>, <<"HEROMOTOCO", "Auto">>,
    <<"BAJAJ-AUTO", "Auto">>, <<"EICHERMOT", "Auto">>,
    <<"ASHOKLEY", "Auto">>, <<"SUNPHARMA", "Pharma">>,
    <<"DRREDDY", "Pharma">>, <<"CIPLA", "Pharma">>,
    <<"DIVISLAB", "Pharma">>, <<"HINDUNILVR", "FMCG">>, <<"ITC", "FMCG">>,
    <<"NESTLEIND", "FMCG">>, <<"BRITANNIA", "FMCG">>, <<"DABUR", "FMCG">>,
    <<"MARICO", "FMCG">>, <<"COLPAL", "FMCG">>, <<"RELIANCE", "Energy">>,
    <<"ONGC", "Energy">>, <<"IOC", "Energy">>, <<"BPCL", "Energy">>,
    <<"NTPC", "Power">>, <<"POWERGRID", "Power">>,
    <<"TATAPOWER", "Power">>, <<"TATASTEEL", "Metals">>,
    <<"JSWSTEEL", "Metals">>, <<"HINDALCO", "Metals">>,
    <<"VEDL", "Metals">>, <<"COALINDIA", "Mining">>, <<"LT", "Infra">>,
    <<"ADANIENT", "Infra">>, <<"ADANIPORTS", "Infra">>,
    <<"BHARTIARTL", "Telecom">>, <<"IDEA", "Telecom">>,
    <<"TITAN", "Consumer">>, <<"ASIANPAINT", "Consumer">>,
    <<"PIDILITIND", "Consumer">>, <<"ULTRACEMCO", "Cement">>,
    <<"SHREECEM", "Cement">>, <<"AMBUJACEM", "Cement">>,
    <<"GABRIEL", "Auto Ancillary">>, <<"MOTHERSON", "Auto Ancillary">>,
    <<"BOSCHLTD", "Auto Ancillary">>
>>

SECTOR_SUGGESTIONS == <<
    <<"IT", <<"TCS", "INFY", "WIPRO", "HCLTECH", "TECHM", "LTIM", "MPHASIS", "COFORGE">>>>,
    <<"Banking", <<"HDFCBANK", "ICICIBANK", "SBIN", "KOTAKBANK", "AXISBANK", "INDUSINDBK">>>>,
    <<"NBFC", <<"BAJFINANCE", "BAJAJFINSV", "CHOLAFIN", "MUTHOOTFIN">>>>,
    <<"Auto", <<"TATAMOTORS", "M&M", "MARUTI", "HEROMOTOCO", "BAJAJ-AUTO", "EICHERMOT">>>>,
    <<"Pharma", <<"SUNPHARMA", "DRREDDY", "CIPLA", "DIVISLAB", "APOLLOHOSP">>>>,
    <<"FMCG", <<"HINDUNILVR", "ITC", "NESTLEIND", "BRITANNIA", "DABUR", "MARICO">>>>,
    <<"Energy", <<"RELIANCE", "ONGC", "IOC", "BPCL", "GAIL">>>>,
    <<"Power", <<"NTPC", "POWERGRID", "TATAPOWER", "ADANIGREEN">>>>,
    <<"Metals", <<"TATASTEEL", "JSWSTEEL", "HINDALCO", "VEDL", "NMDC">>>>,
    <<"Infra", <<"LT", "ADANIENT", "ADANIPORTS", "BHARTIARTL">>>>,
    <<"Consumer", <<"TITAN", "ASIANPAINT", "PIDILITIND", "HAVELLS">>>>,
    <<"Cement", <<"ULTRACEMCO", "SHREECEM", "AMBUJACEM", "ACC">>>>,
    <<"Auto Ancillary", <<"GABRIEL", "MOTHERSON", "BOSCHLTD", "MRF">>>>
>>

\* STOCK_SECTORS.get(symbol, "Other")
sector_of(symbol) ==
    IF symbol \in DictKeys(STOCK_SECTORS) THEN DictGet(STOCK_SECTORS, symbol) ELSE "Other"

\* the dict analyze_portfolio_node builds for a holding
holding_info(h) ==
    [symbol |-> h.tradingsymbol, sector |-> sector_of(h.tradingsymbol), pnl |-> h.pnl,
     return_pct |-> IF h.average_price > 0
                    THEN ((h.last_price - h.average_price) * 100) \div h.average_price
                    ELSE 0]

\* list(sectors) for a set of strings: the iteration order of a set is not
\* fixed, so every ordering of its elements is possible
list_of_set(sectors) ==
    {order \in [1..Cardinality(sectors) -> sectors] :
        \A i, j \in DOMAIN order : i # j => order[i] # order[j]}

\* the set `sectors` analyze_portfolio_node collects from the holdings
WL_sectors(holdings) == {sector_of(holdings[i].tradingsymbol) : i \in DOMAIN holdings}

\* `current_sectors` is list(sectors): one of list_of_set(WL_sectors(holdings))
WL_analyze_portfolio_node(state, holdings_outcome, current_sectors) ==
    IF holdings_outcome.kind = "raise"
    THEN Returned([current_holdings |-> <<>>, current_sectors |-> <<>>,
                   error |-> "Failed to analyze portfolio: " \o holdings_outcome.msg,
                   steps_completed |-> <<"analyze_portfolio">>], <<"get_holdings">>)
    ELSE LET holdings == holdings_outcome.value IN
         IF ~TruthyObj(holdings)
         THEN Returned([current_holdings |-> <<>>, current_sectors |-> <<>>,
                        steps_completed |-> <<"analyze_portfolio">>], <<"get_holdings">>)
         ELSE Returned([current_holdings |-> [i \in DOMAIN holdings |-> holding_info(holdings[i])],
                        current_sectors |-> current_sectors,
                        steps_completed |-> <<"analyze_portfolio">>], <<"get_holdings">>)

\* the opportunities of one sector: its suggestions that are not held
sector_opportunities(sector, held_symbols) ==
    IF sector \notin DictKeys(SECTOR_SUGGESTIONS) THEN <<>>
    ELSE LET NotHeld(symbol) == symbol \notin held_symbols
             symbols == SelectSeq(DictGet(SECTOR_SUGGESTIONS, sector), NotHeld)
         IN [i \in DOMAIN symbols |->
                [symbol |-> symbols[i], sector |-> sector,
                 reason |-> "Same sector as your " \o sector \o " holdings"]]

RECURSIVE all_sector_opportunities(_, _)
all_sector_opportunities(current_sectors, held_symbols) ==
    IF current_sectors = <<>> THEN <<>>
    ELSE sector_opportunities(Head(current_sectors), held_symbols)
             \o all_sector_opportunities(Tail(current_sectors), held_symbols)

blue_chips == <<"RELIANCE", "TCS", "HDFCBANK", "INFY", "ICICIBANK", "HINDUNILVR">>

RECURSIVE add_blue_chips(_, _, _)
\* the loop over blue_chips from index i on
add_blue_chips(opportunities, held_symbols, i) ==
    IF i > Len(blue_chips) THEN opportunities
    ELSE IF blue_chips[i] \notin held_symbols
            /\ blue_chips[i] \notin {opportunities[k].symbol : k \in DOMAIN opportunities}
    THEN add_blue_chips(Append(opportunities,
                               [symbol |-> blue_chips[i], sector |-> sector_of(blue_chips[i]),
                                reason |-> "Blue chip stock for diversification"]),
                        held_symbols, i + 1)
    ELSE add_blue_chips(opportunities, held_symbols, i + 1)

\* identify_opportunities_node without the limit of 10
WL_identify_opportunities_node_uncapped(state) ==
    LET current_holdings == Get(state, "current_holdings", <<>>)
        held_symbols == {current_holdings[i].symbol : i \in DOMAIN current_holdings}
    IN Returned([opportunities |->
                     add_blue_chips(all_sector_opportunities(Get(state, "current_sectors", <<>>),
                                                             held_symbols),
                                    held_symbols, 1),
                 steps_completed |-> <<"identify_opportunities">>], <<>>)

WL_identify_opportunities_node(state) ==
    LET current_holdings == Get(state, "current_holdings", <<>>)
        current_sectors == Get(state, "current_sectors", <<>>)
        held_symbols == {current_holdings[i].symbol : i \in DOMAIN current_holdings}
        opportunities == add_blue_chips(all_sector_opportunities(current_sectors, held_symbols),
                                        held_symbols, 1)
    IN Returned([opportunities |-> SubSeq(opportunities, 1, Min({10, Len(opportunities)})),
                 steps_completed |-> <<"identify_opportunities">>], <<>>)

WL_fetch_news_node(state, news_outcome) ==
    LET opportunities == Get(state, "opportunities", <<>>) IN
    IF ~TruthyObj(opportunities)
    THEN Returned([news_context |-> <<>>, steps_completed |-> <<"fetch_news">>], <<>>)
    ELSE LET top == SubSeq(opportunities, 1, Min({5, Len(opportunities)}))
             found == news_lookup([i \in DOMAIN top |-> top[i].symbol], news_outcome)
         IN Returned([news_context |-> IF found.raised THEN <<>> ELSE found.articles,
                      steps_completed |-> <<"fetch_news">>], found.calls)

WL_generate_suggestions_node(state, llm_outcome) ==
    IF TruthyStr(Get(state, "error", None))
    THEN Returned([suggestions |-> "Unable to generate suggestions: " \o state["error"],
                   steps_completed |-> <<"generate_suggestions">>], <<>>)
    ELSE LET suggestions ==
                 IF llm_outcome.kind = "raise"
                 THEN "Error generating suggestions: " \o llm_outcome.msg
                 ELSE IF llm_outcome.value = "" THEN "Error: Empty response from AI model"
                 ELSE llm_outcome.value
         IN Returned([suggestions |-> suggestions,
                      steps_completed |-> <<"generate_suggestions">>], <<"llm">>)

WL_should_continue(state) ==
    IF TruthyStr(Get(state, "error", None)) THEN "generate_suggestions" ELSE "continue"

create_watchlist_graph ==
    [entry |-> "analyze_portfolio",
     conditional |-> [analyze_portfolio |-> [continue |-> "identify_opportunities",
                                             generate_suggestions |-> "generate_suggestions"]],
     edges |-> [identify_opportunities |-> "fetch_news", fetch_news |-> "generate_suggestions",
                generate_suggestions |-> END]]

\* WatchlistAgent.suggest
WL_initial_state(query) ==
    [query |-> query, current_holdings |-> <<>>, current_sectors |-> <<>>,
     opportunities |-> <<>>, news_context |-> <<>>, suggestions |-> "", error |-> None,
     steps_completed |-> <<>>]

WL_result(final_state) == Get(final_state, "suggestions", "No suggestions generated.")

-----------------------------------------------------------------------------
(* data/scrapers/screener.py and workflows/fundamental_analysis.py         *)

\* FundamentalAnalysisState: steps_completed is Annotated[list, operator.add]
FundamentalAnalysisState_add == {"steps_completed"}

\* FundamentalData, the fields the workflow reads.  Every ratio and
\* percentage is kept in tenths (pe_ratio 125 is a P/E of 12.5), so that the
\* only fractional threshold of the scoring, 0.5, is the integer 5.
FundamentalData(symbol) ==
    [symbol |-> symbol, pe_ratio |-> 0, pb_ratio |-> 0, dividend_yield |-> 0, roe |-> 0,
     roce |-> 0, revenue_growth_3yr |-> 0, profit_growth_3yr |-> 0, debt_to_equity |-> 0,
     current_ratio |-> 0, promoter_holding |-> 0, promoter_holding_change |-> 0,
     error |-> None]

\* a threshold of the scoring, in tenths
T(x) == 10 * x

\* a cheap, profitable, growing, debt-free company
STRONG_COMPANY(symbol) ==
    [FundamentalData(symbol) EXCEPT !.pe_ratio = T(12), !.pb_ratio = 15,
        !.dividend_yield = T(3), !.roe = T(22), !.roce = T(25),
        !.revenue_growth_3yr = T(18), !.profit_growth_3yr = T(20), !.debt_to_equity = 2,
        !.current_ratio = T(2), !.promoter_holding = T(65), !.promoter_holding_change = 5]
\* an expensive, unprofitable, indebted one
WEAK_COMPANY(symbol) ==
    [FundamentalData(symbol) EXCEPT !.pe_ratio = T(60), !.pb_ratio = T(8), !.roe = T(4),
        !.roce = T(5), !.revenue_growth_3yr = T(2), !.profit_growth_3yr = T(1),
        !.debt_to_equity = T(3), !.current_ratio = 8, !.promoter_holding = T(20),
        !.promoter_holding_change = -T(3)]

\* get_stock_fundamentals(symbol): data, a FundamentalData carrying an error
\* (HTTP failure or unknown stock), or an exception the scraper does not catch
GetFundamentalsOutcomes ==
    {Ok("strong"), Ok("weak"), Ok("empty"), Ok("error"), Raise(FALSE, "parse failure", "")}

get_stock_fundamentals(symbol, outcome) ==
    IF outcome.value = "strong" THEN STRONG_COMPANY(symbol)
    ELSE IF outcome.value = "weak" THEN WEAK_COMPANY(symbol)
    ELSE IF outcome.value = "empty" THEN FundamentalData(symbol)
    ELSE [FundamentalData(symbol) EXCEPT
             !.error = "Stock " \o symbol \o " not found on Screener.in"]

\* FundamentalScore(): the five category scores (the notes are display text
\* for the prompt and are not kept)
FundamentalScore ==
    [valuation_score |-> 0, profitability_score |-> 0, growth_score |-> 0,
     financial_health_score |-> 0, promoter_score |-> 0]

\* the category score left as summed
cap_absent(score) == score

\* max(-2, min(2, score))
cap(score) == Max({-2, Min({2, score})})

analyze_fundamentals(data) ==
    LET valuation ==
            (IF data.pe_ratio > 0
             THEN IF data.pe_ratio < T(15) THEN 2
                  ELSE IF data.pe_ratio < T(25) THEN 1
                  ELSE IF data.pe_ratio < T(40) THEN 0
                  ELSE -1
             ELSE 0)
            + (IF data.pb_ratio > 0
               THEN IF data.pb_ratio < T(2) THEN 1
                    ELSE IF data.pb_ratio > T(5) THEN -1
                    ELSE 0
               ELSE 0)
            + (IF data.dividend_yield > T(2) THEN 1 ELSE 0)
        profitability ==
            (IF data.roe > 0
             THEN IF data.roe >= T(20) THEN 2
                  ELSE IF data.roe >= T(15) THEN 1
                  ELSE IF data.roe >= T(10) THEN 0
                  ELSE -1
             ELSE 0)
            + (IF data.roce > 0
               THEN IF data.roce >= T(20) THEN 1
                    ELSE IF data.roce < T(10) THEN -1
                    ELSE 0
               ELSE 0)
        Growth(g) == IF g > 0
                     THEN IF g >= T(15) THEN 1 ELSE IF g < T(5) THEN -1 ELSE 0
                     ELSE 0
        growth == Growth(data.revenue_growth_3yr) + Growth(data.profit_growth_3yr)
        financial_health ==
            (IF data.debt_to_equity >= 0
             THEN IF data.debt_to_equity < 5 THEN 2
                  ELSE IF data.debt_to_equity < T(1) THEN 1
                  ELSE IF data.debt_to_equity < T(2) THEN 0
                  ELSE -2
             ELSE 0)
            + (IF data.current_ratio > 0
               THEN IF data.current_ratio >= T(2) THEN 1
                    ELSE IF data.current_ratio < T(1) THEN -1
                    ELSE 0
               ELSE 0)
        promoter ==
            (IF data.promoter_holding > 0
             THEN IF data.promoter_holding >= T(60) THEN 1
                  ELSE IF data.promoter_holding < T(30) THEN -1
                  ELSE 0
             ELSE 0)
            + (IF data.promoter_holding_change # 0
               THEN IF data.promoter_holding_change > 0 THEN 1
                    ELSE IF data.promoter_holding_change < -T(2) THEN -1
                    ELSE 0
               ELSE 0)
    IN [valuation_score |-> cap(valuation), profitability_score |-> cap(profitability),
        growth_score |-> cap(growth), financial_health_score |-> cap(financial_health),
        promoter_score |-> cap(promoter)]

\* FundamentalScore.total_score
total_score(score) ==
    score.valuation_score + score.profitability_score + score.growth_score
        + score.financial_health_score + score.promoter_score

\* recommendation with exclusive lower bounds
recommendation_exclusive(score) ==
    IF total_score(score) > 5 THEN "STRONG BUY"
    ELSE IF total_score(score) > 2 THEN "BUY"
    ELSE IF total_score(score) > -1 THEN "HOLD"
    ELSE IF total_score(score) > -4 THEN "SELL"
    ELSE "STRONG SELL"

\* FundamentalScore.recommendation
recommendation(score) ==
    IF total_score(score) >= 5 THEN "STRONG BUY"
    ELSE IF total_score(score) >= 2 THEN "BUY"
    ELSE IF total_score(score) >= -1 THEN "HOLD"
    ELSE IF total_score(score) >= -4 THEN "SELL"
    ELSE "STRONG SELL"

\* extract_symbol_node; `symbol_found` is what extract_symbol(query) gives
FA_extract_symbol_node(state, symbol_found) ==
    LET given == Get(state, "symbol", "")
        symbol == IF ~TruthyStr(given) THEN symbol_found ELSE given
    IN IF ~TruthyStr(symbol)
       THEN Returned([error |-> "Could not identify stock symbol from query. Please specify a stock symbol.",
                      steps_completed |-> <<"extract_symbol">>], <<>>)
       ELSE Returned([symbol |-> upper(symbol), steps_completed |-> <<"extract_symbol">>], <<>>)

FA_fetch_fundamentals_node(state, fundamentals_outcome) ==
    LET symbol == Get(state, "symbol", None) IN
    IF ~TruthyStr(symbol) \/ TruthyStr(Get(state, "error", None))
    THEN Returned([steps_completed |-> <<"fetch_fundamentals">>], <<>>)
    ELSE IF fundamentals_outcome.kind = "raise" THEN Raised(<<"get_stock_fundamentals">>)
    ELSE LET fundamentals == get_stock_fundamentals(symbol, fundamentals_outcome)
             score == IF ~TruthyStr(fundamentals.error) THEN analyze_fundamentals(fundamentals)
                      ELSE FundamentalScore
         IN Returned([fundamentals |-> fundamentals, score |-> score,
                      steps_completed |-> <<"fetch_fundamentals">>],
                     <<"get_stock_fundamentals">>)

FA_check_holdings_node(state, holdings_outcome) ==
    LET symbol == upper(Get(state, "symbol", ""))
        h == IF holdings_outcome.kind = "ok" THEN find_holding(holdings_outcome.value, symbol)
             ELSE NoneObj
    IN IF TruthyStr(Get(state, "error", None))
       THEN Returned([steps_completed |-> <<"check_holdings">>], <<>>)
       ELSE IF TruthyObj(h)
       THEN Returned([in_portfolio |-> TRUE, holding_qty |-> h.quantity,
                      holding_avg_price |-> h.average_price, holding_pnl |-> h.pnl,
                      holding_value |-> h.quantity * h.last_price,
                      steps_completed |-> <<"check_holdings">>], <<"get_holdings">>)
       ELSE Returned([in_portfolio |-> FALSE, steps_completed |-> <<"check_holdings">>],
                     <<"get_holdings">>)

FA_fetch_news_node(state, news_outcome) ==
    LET symbol == Get(state, "symbol", "") IN
    IF ~TruthyStr(symbol) \/ TruthyStr(Get(state, "error", None))
    THEN Returned([news_articles |-> <<>>, steps_completed |-> <<"fetch_news">>], <<>>)
    ELSE LET found == news_lookup(<<symbol>>, news_outcome)
         IN IF found.raised THEN Raised(found.calls)
            ELSE Returned([news_articles |-> found.articles,
                           steps_completed |-> <<"fetch_news">>], found.calls)

\* a synthesis node that calls the LLM whether or not the error field is set
FA_generate_analysis_node_ignores_error(state, llm_outcome) ==
    LET analysis ==
            IF llm_outcome.kind = "raise"
            THEN "## Analysis Error\n\nUnable to generate analysis: " \o llm_outcome.msg
            ELSE llm_outcome.value
    IN Returned([response |-> analysis, steps_completed |-> <<"generate_analysis">>],
                <<"llm">>)

FA_generate_analysis_node(state, llm_outcome) ==
    IF TruthyStr(Get(state, "error", None))
    THEN Returned([response |-> "## Analysis Error\n\n" \o state["error"],
                   steps_completed |-> <<"generate_analysis">>], <<>>)
    ELSE LET analysis ==
                 IF llm_outcome.kind = "raise"
                 THEN "## Analysis Error\n\nUnable to generate analysis: " \o llm_outcome.msg
                 ELSE llm_outcome.value
         IN Returned([response |-> analysis, steps_completed |-> <<"generate_analysis">>],
                     <<"llm">>)

FA_should_continue(state) ==
    IF TruthyStr(Get(state, "error", None)) THEN "generate_analysis" ELSE "continue"

create_fundamental_analysis_graph ==
    [entry |-> "extract_symbol",
     conditional |-> [extract_symbol |-> [continue |-> "fetch_fundamentals",
                                          generate_analysis |-> "generate_analysis"]],
     edges |-> [fetch_fundamentals |-> "check_holdings", check_holdings |-> "fetch_news",
                fetch_news |-> "generate_analysis", generate_analysis |-> END]]

\* FundamentalAnalysisAgent.analyze (the orchestrator passes no symbol)
FA_initial_state(query, symbol) ==
    [query |-> query, symbol |-> IF TruthyStr(symbol) THEN symbol ELSE "",
     fundamentals |-> NoneObj, score |-> NoneObj, in_portfolio |-> FALSE, holding_qty |-> 0,
     holding_avg_price |-> 0, holding_pnl |-> 0, holding_value |-> 0,
     news_articles |-> <<>>, response |-> "", error |-> None, steps_completed |-> <<>>]

FA_result(final_state) == Get(final_state, "response", "Unable to complete analysis")

-----------------------------------------------------------------------------
(* orchestrator.py: run_agent and process_query                            *)

\* ord() order of the characters that occur in agent identifiers
AsciiOrder == "ABCDEFGHIJKLMNOPQRSTUVWXYZ_abcdefghijklmnopqrstuvwxyz"

RECURSIVE str_less(_, _)
\* a < b for two str
str_less(a, b) ==
    IF b = "" THEN FALSE
    ELSE IF a = "" THEN TRUE
    ELSE IF CharAt(a, 1) # CharAt(b, 1)
    THEN IndexIn(CharAt(a, 1), AsciiOrder) < IndexIn(CharAt(b, 1), AsciiOrder)
    ELSE str_less(SubSeq(a, 2, Len(a)), SubSeq(b, 2, Len(b)))

RECURSIVE sorted(_)
\* sorted(strings) for a set of str
sorted(strings) ==
    IF strings = {} THEN <<>>
    ELSE LET least == CHOOSE x \in strings : \A y \in strings \ {x} : str_less(x, y)
         IN <<least>> \o sorted(strings \ {least})

\* a validation set with an identifier run_agent has no branch for
valid_agent_types_with_research ==
    {"portfolio_analysis", "stock_research", "market_context", "watchlist",
     "fundamental_analysis", "research"}

valid_agent_types ==
    {"portfolio_analysis", "stock_research", "market_context", "watchlist",
     "fundamental_analysis"}

\* a dispatch that lets the classifier overrule the agent type it is given
run_agent_dispatch_classifier_first(agent_type, query) ==
    LET detected == should_use_agent(query)
        chosen == IF detected[1] THEN detected[2] ELSE agent_type
    IN IF chosen = "portfolio_analysis"
       THEN [workflow |-> "portfolio_analysis",
             state |-> PA_initial_state(query, detect_analysis_type(query)),
             node |-> create_portfolio_analysis_graph.entry]
       ELSE IF chosen = "stock_research"
       THEN [workflow |-> "stock_research", state |-> SR_initial_state(query, None),
             node |-> create_stock_research_graph.entry]
       ELSE IF chosen = "market_context"
       THEN [workflow |-> "market_context", state |-> MC_initial_state(query),
             node |-> create_market_context_graph.entry]
       ELSE IF chosen = "watchlist"
       THEN [workflow |-> "watchlist", state |-> WL_initial_state(query),
             node |-> create_watchlist_graph.entry]
       ELSE IF chosen = "fundamental_analysis"
       THEN [workflow |-> "fundamental_analysis", state |-> FA_initial_state(query, None),
             node |-> create_fundamental_analysis_graph.entry]
       ELSE [workflow |-> None, state |-> <<>>, node |-> END]

\* run_agent up to the graph invocation: the workflow the agent type is
\* dispatched to, with the state and the node its graph starts from;
\* workflow None is the fall-through at the end of run_agent
run_agent_dispatch(agent_type, query) ==
    IF agent_type = "portfolio_analysis"
    THEN [workflow |-> "portfolio_analysis",
          state |-> PA_initial_state(query, detect_analysis_type(query)),
          node |-> create_portfolio_analysis_graph.entry]
    ELSE IF agent_type = "stock_research"
    THEN [workflow |-> "stock_research", state |-> SR_initial_state(query, None),
          node |-> create_stock_research_graph.entry]
    ELSE IF agent_type = "market_context"
    THEN [workflow |-> "market_context", state |-> MC_initial_state(query),
          node |-> create_market_context_graph.entry]
    ELSE IF agent_type = "watchlist"
    THEN [workflow |-> "watchlist", state |-> WL_initial_state(query),
          node |-> create_watchlist_graph.entry]
    ELSE IF agent_type = "fundamental_analysis"
    THEN [workflow |-> "fundamental_analysis", state |-> FA_initial_state(query, None),
          node |-> create_fundamental_analysis_graph.entry]
    ELSE [workflow |-> None, state |-> <<>>, node |-> END]

\* run_agent from the graph's final state on: the dict it returns
run_agent_result(workflow, final_state) ==
    IF workflow = "portfolio_analysis"
    THEN [response |-> PA_result(final_state), agent_used |-> "Portfolio Analysis Agent"]
    ELSE IF workflow = "stock_research"
    THEN [response |-> SR_result(final_state), agent_used |-> "Stock Research Agent"]
    ELSE IF workflow = "market_context"
    THEN [response |-> MC_result(final_state), agent_used |-> "Market Context Agent"]
    ELSE IF workflow = "watchlist"
    THEN [response |-> WL_result(final_state), agent_used |-> "Watchlist Suggestion Agent"]
    ELSE IF workflow = "fundamental_analysis"
    THEN [response |-> FA_result(final_state), agent_used |-> "Fundamental Analysis Agent"]
    ELSE [response |-> "Unknown agent type", agent_used |-> None]

\* process_query's answer to an invalid force_agent
invalid_agent_envelope(force_agent) ==
    [response |-> "Invalid agent type '" \o force_agent \o "'. Valid types are: "
                      \o Join(", ", sorted(valid_agent_types)),
     used_agent |-> FALSE, agent_type |-> None]

\* an answer that reports an agent although none ran
no_agent_envelope_used == [response |-> None, used_agent |-> TRUE, agent_type |-> None]

\* process_query's answer when no workflow is needed
no_agent_envelope == [response |-> None, used_agent |-> FALSE, agent_type |-> None]

\* process_query's answer built from run_agent's result
agent_envelope(forced, result) ==
    IF forced /\ ~TruthyStr(result.agent_used)
    THEN [response |-> result.response, used_agent |-> FALSE, agent_type |-> None]
    ELSE [response |-> result.response, used_agent |-> TRUE, agent_type |-> result.agent_used]

\* the example queries listed for each workflow identifier
AGENT_TRIGGERS ==
    [portfolio_analysis |->
        <<"Analyze my portfolio", "What are my worst performing stocks?",
          "Which stock is losing the most?", "Show my best performers",
          "Deep dive into my portfolio",
          "What is the change in my portfolio from yesterday?",
          "How did my portfolio do today?", "Show my portfolio performance">>,
     stock_research |->
        <<"Tell me about Reliance", "Research TCS stock",
          "What's happening with INFY?", "Analyze HDFC Bank", "News on ICICI Bank">>,
     market_context |->
        <<"Why is my portfolio down?", "What happened to the market today?",
          "Explain today's market movement", "Why did my stocks crash?",
          "Market context for my portfolio">>,
     watchlist |->
        <<"Suggest stocks for my watchlist", "What stocks should I watch?",
          "Recommend stocks to buy", "Build my watchlist",
          "What should I invest in next?">>,
     fundamental_analysis |->
        <<"Is Reliance a good buy?", "Fundamentals of TCS", "Should I buy HDFC Bank?",
          "Is ITC a good investment?", "Check financials of Infosys",
          "PE ratio of Wipro">>]

-----------------------------------------------------------------------------
(* The program as a state machine: a call of AgentOrchestrator.process_query *)
(* and, inside it, the graph engine running one node after another.        *)

\* the queries the caller sends
Queries ==
    {"Analyze my portfolio", "What are my worst performing stocks?",
     "Why is my portfolio down today?", "portfolio crash today",
     "why did my portfolio drop", "market overview", "Suggest stocks to watch",
     "what should I buy", "Is TCS a good buy?", "fundamental analysis of reliance",
     "check NSE:INFY fundamentals", "Tell me about TCS", "Research HDFCBANK",
     "what about the", "Show my best performers", "Hello", "",
     "market overview fundamentals", "watchlist stock fundamentals",
     "analyze watchlist stock", "Show my top gainers and losing stocks"}

\* the force_agent arguments the caller sends
ForceAgents == valid_agent_types \cup {None, "", "research", "PORTFOLIO_ANALYSIS"}

VARIABLES
    pc,             \* "idle", "running" (inside process_query), "returned", "raised"
    query,          \* arguments of the call
    force_agent,
    classified,     \* what should_use_agent returned in the call, <<>> if not asked
    agent,          \* the workflow run_agent dispatched to, None if none
    node,           \* the node the engine runs next, END after the last
    state,          \* the graph state
    envelope,       \* what process_query returned, <<>> before it returns
    trace,          \* the nodes the engine ran, in order
    collab_calls,   \* the collaborator calls made, in order
    registry,       \* symbol_tools' module-level registry
    cache,          \* the NSE symbol cache file: a listing, or None
    dict_schema,    \* how the engine keeps a StateGraph(dict) state
    broker_answer,  \* how the call's get_holdings ended: "none" while not called,
                    \* then "ok", "auth" (AuthenticationError) or "error"
    call,           \* a direct call of one of the pure functions: its name, its
                    \* arguments and, once it returned, its result
    runs,           \* the concurrent runs on one agent instance, by task
    threads         \* the threads inside symbol_tools' registry functions

vars == <<pc, query, force_agent, classified, agent, node, state, envelope,
          trace, collab_calls, registry, cache, dict_schema, broker_answer,
          call, runs, threads>>

\* no direct call, no concurrent run
NoCall == [fn |-> "none", done |-> FALSE]
NoRuns == <<>>
NoThreads == <<>>

\* StateGraph(dict) has no annotated keys.  The engine either keeps such a
\* state as one value that a node's return replaces ("root"), or key by key
\* ("keys"); which one is a property of the installed engine.
DictSchemas == {"root", "keys"}

\* the orchestrator after construction, no call of process_query made yet
Constructed ==
    /\ pc = "idle"
    /\ query = ""
    /\ force_agent = None
    /\ classified = <<>>
    /\ agent = None
    /\ node = END
    /\ state = <<>>
    /\ envelope = <<>>
    /\ trace = <<>>
    /\ collab_calls = <<>>
    /\ registry = EmptyRegistry
    /\ cache \in {None, NSE_LISTING}
    /\ dict_schema \in DictSchemas
    /\ broker_answer = "none"

\* what a direct call or a concurrent run leaves alone
program_vars == <<pc, query, force_agent, classified, agent, node, state, envelope,
                  trace, collab_calls, registry, cache, dict_schema, broker_answer>>

Init ==
    /\ Constructed
    /\ call = NoCall
    /\ runs = NoRuns
    /\ threads = NoThreads

\* process_query(query, force_agent) up to the first await: validation of
\* force_agent, classification, and run_agent's dispatch
process_query(q, f) ==
    /\ pc = "idle"
    /\ query' = q
    /\ force_agent' = f
    /\ trace' = <<>>
    /\ collab_calls' = <<>>
    /\ LET forced == TruthyStr(f)
           detected == IF forced THEN <<>> ELSE should_use_agent(q)
           agent_type == IF forced THEN f ELSE detected[2]
           run == IF forced THEN f \in valid_agent_types
                  ELSE detected[1] /\ TruthyStr(detected[2])
           start == run_agent_dispatch(agent_type, q)
       IN /\ classified' = detected
          /\ IF ~run
             THEN /\ pc' = "returned"
                  /\ envelope' = IF forced THEN invalid_agent_envelope(f) ELSE no_agent_envelope
                  /\ agent' = None /\ node' = END /\ state' = <<>>
             ELSE IF start.workflow = None
             THEN /\ pc' = "returned"
                  /\ envelope' = agent_envelope(forced, run_agent_result(None, <<>>))
                  /\ agent' = None /\ node' = END /\ state' = <<>>
             ELSE /\ pc' = "running"
                  /\ envelope' = <<>>
                  /\ agent' = start.workflow /\ node' = start.node /\ state' = start.state
    /\ UNCHANGED <<registry, cache, dict_schema, broker_answer, call, runs, threads>>

\* the graph reached END: the agent returns its output field, run_agent
\* wraps it, process_query builds the envelope
process_query_return ==
    /\ pc = "running" /\ node = END
    /\ pc' = "returned"
    /\ envelope' = agent_envelope(TruthyStr(force_agent), run_agent_result(agent, state))
    /\ UNCHANGED <<query, force_agent, classified, agent, node, state, trace,
                   collab_calls, registry, cache, dict_schema, broker_answer,
                   call, runs, threads>>

\* the engine is about to run node `name` of `workflow`
at(workflow, name) == pc = "running" /\ agent = workflow /\ node = name

\* what the broker answered once the node has run: `holdings_outcome` if the
\* node called get_holdings, else what was known before
heard(result, holdings_outcome) ==
    IF \E i \in DOMAIN result.calls : result.calls[i] = "get_holdings"
    THEN IF holdings_outcome.kind = "ok" THEN "ok"
         ELSE IF holdings_outcome.auth THEN "auth" ELSE "error"
    ELSE broker_answer

\* One step of the engine: node `name` ran with `result`;
\* `merged` is the state after its update and `route` the node that follows.
\* An exception leaves the node, the graph, run_agent and process_query.
run_node(name, result, merged, route) ==
    /\ trace' = Append(trace, name)
    /\ collab_calls' = collab_calls \o result.calls
    /\ IF result.raised
       THEN pc' = "raised" /\ state' = state /\ node' = node
       ELSE pc' = "running" /\ state' = merged /\ node' = route
    /\ UNCHANGED <<query, force_agent, classified, agent, envelope, dict_schema,
                   call, runs, threads>>

PA_step(name, result) ==
    LET merged == merge_update(state, result.update, PortfolioState_add) IN
    /\ run_node(name, result, merged,
                next_node(create_portfolio_analysis_graph, name, PA_should_continue(merged)))
    /\ UNCHANGED <<registry, cache>>

PA_fetch_portfolio ==
    /\ at("portfolio_analysis", "fetch_portfolio")
    /\ \E holdings_outcome \in GetHoldingsOutcomes :
           /\ PA_step("fetch_portfolio", PA_fetch_portfolio_node(state, holdings_outcome))
           /\ broker_answer' = heard(PA_fetch_portfolio_node(state, holdings_outcome), holdings_outcome)

PA_analyze_performers ==
    /\ at("portfolio_analysis", "analyze_performers")
    /\ UNCHANGED broker_answer
    /\ PA_step("analyze_performers", PA_analyze_performers_node(state))

PA_fetch_news ==
    /\ at("portfolio_analysis", "fetch_news")
    /\ UNCHANGED broker_answer
    /\ \E news_outcome \in NewsOutcomes :
           PA_step("fetch_news", PA_fetch_news_node(state, news_outcome))

PA_generate_insights ==
    /\ at("portfolio_analysis", "generate_insights")
    /\ UNCHANGED broker_answer
    /\ \E llm_outcome \in LlmOutcomes :
           PA_step("generate_insights", PA_generate_insights_node(state, llm_outcome))

SR_step(name, result) ==
    LET merged == IF dict_schema = "root" THEN root_update(state, result.update)
                  ELSE merge_update(state, result.update, {})
    IN /\ run_node(name, result, merged,
                   next_node(create_stock_research_graph, name, SR_should_continue(merged)))
       /\ UNCHANGED <<registry, cache>>

SR_extract_symbol ==
    /\ at("stock_research", "extract_symbol")
    /\ UNCHANGED broker_answer
    /\ SR_step("extract_symbol",
               SR_extract_symbol_node(state, extract_symbol_from_query(Get(state, "query", ""))))

SR_check_holdings ==
    /\ at("stock_research", "check_holdings")
    /\ \E holdings_outcome \in GetHoldingsOutcomes :
           /\ SR_step("check_holdings", SR_check_holdings_node(state, holdings_outcome))
           /\ broker_answer' = heard(SR_check_holdings_node(state, holdings_outcome), holdings_outcome)

SR_get_price ==
    /\ at("stock_research", "get_price")
    /\ UNCHANGED broker_answer
    /\ \E quotes_outcome \in GetQuotesOutcomes :
           SR_step("get_price", SR_get_price_node(state, quotes_outcome))

SR_fetch_news ==
    /\ at("stock_research", "fetch_news")
    /\ UNCHANGED broker_answer
    /\ \E news_outcome \in NewsOutcomes :
           SR_step("fetch_news", SR_fetch_news_node(state, news_outcome))

SR_generate_report ==
    /\ at("stock_research", "generate_report")
    /\ UNCHANGED broker_answer
    /\ \E llm_outcome \in LlmOutcomes :
           SR_step("generate_report", SR_generate_report_node(state, llm_outcome))

MC_step(name, result) ==
    LET merged == merge_update(state, result.update, MarketContextState_add) IN
    /\ run_node(name, result, merged,
                next_node(create_market_context_graph, name, MC_should_continue(merged)))
    /\ UNCHANGED <<registry, cache>>

MC_fetch_portfolio ==
    /\ at("market_context", "fetch_portfolio")
    /\ \E holdings_outcome \in GetHoldingsOutcomes :
           /\ MC_step("fetch_portfolio", MC_fetch_portfolio_pnl_node(state, holdings_outcome))
           /\ broker_answer' = heard(MC_fetch_portfolio_pnl_node(state, holdings_outcome), holdings_outcome)

MC_identify_movers ==
    /\ at("market_context", "identify_movers")
    /\ UNCHANGED broker_answer
    /\ MC_step("identify_movers", MC_identify_movers_node(state))

MC_fetch_news ==
    /\ at("market_context", "fetch_news")
    /\ UNCHANGED broker_answer
    /\ \E news_outcome \in NewsOutcomes, market_outcome \in NewsOutcomes :
           MC_step("fetch_news", MC_fetch_market_news_node(state, news_outcome, market_outcome))

MC_generate_context ==
    /\ at("market_context", "generate_context")
    /\ UNCHANGED broker_answer
    /\ \E llm_outcome \in LlmOutcomes :
           MC_step("generate_context", MC_generate_context_node(state, llm_outcome))

WL_step(name, result) ==
    LET merged == merge_update(state, result.update, WatchlistState_add) IN
    /\ run_node(name, result, merged,
                next_node(create_watchlist_graph, name, WL_should_continue(merged)))
    /\ UNCHANGED <<registry, cache>>

WL_analyze_portfolio ==
    /\ at("watchlist", "analyze_portfolio")
    /\ \E holdings_outcome \in GetHoldingsOutcomes :
           \E current_sectors \in list_of_set(WL_sectors(holdings_outcome.value)) :
               /\ WL_step("analyze_portfolio",
                          WL_analyze_portfolio_node(state, holdings_outcome, current_sectors))
               /\ broker_answer' = heard(WL_analyze_portfolio_node(state, holdings_outcome, current_sectors), holdings_outcome)

WL_identify_opportunities ==
    /\ at("watchlist", "identify_opportunities")
    /\ UNCHANGED broker_answer
    /\ WL_step("identify_opportunities", WL_identify_opportunities_node(state))

WL_fetch_news ==
    /\ at("watchlist", "fetch_news")
    /\ UNCHANGED broker_answer
    /\ \E news_outcome \in NewsOutcomes :
           WL_step("fetch_news", WL_fetch_news_node(state, news_outcome))

WL_generate_suggestions ==
    /\ at("watchlist", "generate_suggestions")
    /\ UNCHANGED broker_answer
    /\ \E llm_outcome \in LlmOutcomes :
           WL_step("generate_suggestions", WL_generate_suggestions_node(state, llm_outcome))

FA_step(name, result) ==
    LET merged == merge_update(state, result.update, FundamentalAnalysisState_add) IN
    run_node(name, result, merged,
             next_node(create_fundamental_analysis_graph, name, FA_should_continue(merged)))

\* extract_symbol_node, with the registry load extract_symbol triggers: the
\* exchange answers with `fetched` (<<>>: the download failed) and the cache
\* file can be written or not
FA_extract_symbol ==
    /\ at("fundamental_analysis", "extract_symbol")
    /\ UNCHANGED broker_answer
    /\ \E fetched \in {<<>>, NSE_LISTING}, write_ok \in BOOLEAN :
           LET q == Get(state, "query", "")
               asked == ~TruthyStr(Get(state, "symbol", ""))
               load == IF asked /\ needs_registry(q)
                       THEN load_nse_symbols(registry, cache, fetched, write_ok)
                       ELSE [reg |-> registry, cache |-> cache, fetches |-> 0]
               symbol_found == IF asked THEN extract_symbol(q, load.reg) ELSE None
               result == FA_extract_symbol_node(state, symbol_found)
           IN /\ FA_step("extract_symbol",
                         [result EXCEPT !.calls = IF load.fetches > 0
                                                  THEN <<"_fetch_nse_equity_list">> ELSE <<>>])
              /\ registry' = load.reg
              /\ cache' = load.cache

FA_fetch_fundamentals ==
    /\ at("fundamental_analysis", "fetch_fundamentals")
    /\ UNCHANGED broker_answer
    /\ \E fundamentals_outcome \in GetFundamentalsOutcomes :
           /\ FA_step("fetch_fundamentals", FA_fetch_fundamentals_node(state, fundamentals_outcome))
           /\ UNCHANGED <<registry, cache>>

FA_check_holdings ==
    /\ at("fundamental_analysis", "check_holdings")
    /\ \E holdings_outcome \in GetHoldingsOutcomes :
           /\ FA_step("check_holdings", FA_check_holdings_node(state, holdings_outcome))
           /\ broker_answer' = heard(FA_check_holdings_node(state, holdings_outcome), holdings_outcome)
           /\ UNCHANGED <<registry, cache>>

FA_fetch_news ==
    /\ at("fundamental_analysis", "fetch_news")
    /\ UNCHANGED broker_answer
    /\ \E news_outcome \in NewsOutcomes :
           /\ FA_step("fetch_news", FA_fetch_news_node(state, news_outcome))
           /\ UNCHANGED <<registry, cache>>

FA_generate_analysis ==
    /\ at("fundamental_analysis", "generate_analysis")
    /\ UNCHANGED broker_answer
    /\ \E llm_outcome \in LlmOutcomes :
           /\ FA_step("generate_analysis", FA_generate_analysis_node(state, llm_outcome))
           /\ UNCHANGED <<registry, cache>>

Next ==
    \/ \E q \in Queries, f \in ForceAgents : process_query(q, f)
    \/ process_query_return
    \/ PA_fetch_portfolio \/ PA_analyze_performers \/ PA_fetch_news \/ PA_generate_insights
    \/ SR_extract_symbol \/ SR_check_holdings \/ SR_get_price \/ SR_fetch_news
    \/ SR_generate_report
    \/ MC_fetch_portfolio \/ MC_identify_movers \/ MC_fetch_news \/ MC_generate_context
    \/ WL_analyze_portfolio \/ WL_identify_opportunities \/ WL_fetch_news
    \/ WL_generate_suggestions
    \/ FA_extract_symbol \/ FA_fetch_fundamentals \/ FA_check_holdings \/ FA_fetch_news
    \/ FA_generate_analysis

Spec == Init /\ [][Next]_vars

\* The running call advances: the engine runs the node it is at, which
\* returns or raises, or, at END, process_query returns.  Of the steps of
\* Next these are the node steps and process_query_return.
Advance ==
    /\ pc = "running"
    /\ \/ trace' = Append(trace, node) /\ pc' \in {"running", "raised"}
       \/ trace' = trace /\ pc' = "returned"

\* The event loop resumes the awaiting coroutine once the awaited call has
\* returned or raised: a call that is running eventually advances.
FairSpec == Spec /\ WF_<<pc, trace>>(Advance)
-----------------------------------------------------------------------------
(* Direct calls of the pure functions: a call starts with its arguments and *)
(* returns the function's result.                                           *)

\* a call of `fn` with `args`, not yet returned
Pending(fn, args) == [fn |-> fn, args |-> args, done |-> FALSE]

\* the values a ratio takes, in tenths: absent (0), one in each band of the
\* scoring, and the thresholds themselves
PE_RATIOS == {0, T(12), T(15), T(25), T(30), T(40), T(60)}
PB_RATIOS == {0, 15, T(2), T(5), T(8)}
DIVIDEND_YIELDS == {0, T(2), T(3)}
ROES == {0, T(4), T(10), T(15), T(20), T(22)}
ROCES == {0, T(5), T(10), T(20), T(25)}
GROWTHS == {0, T(2), T(5), T(15), T(18)}
DEBT_TO_EQUITIES == {-5, 0, 2, 5, T(1), T(2), T(3)}
CURRENT_RATIOS == {0, 8, T(1), T(2)}
PROMOTER_HOLDINGS == {0, T(20), T(30), T(60), T(65)}
PROMOTER_HOLDING_CHANGES == {-T(3), -T(2), 0, 5}

\* a company with the valuation of v, the profitability of p, the growth of
\* g, the financial health of h and the promoter activity of m
Company(v, p, g, h, m) ==
    [symbol |-> v.symbol, pe_ratio |-> v.pe_ratio, pb_ratio |-> v.pb_ratio,
     dividend_yield |-> v.dividend_yield, roe |-> p.roe, roce |-> p.roce,
     revenue_growth_3yr |-> g.revenue_growth_3yr,
     profit_growth_3yr |-> g.profit_growth_3yr, debt_to_equity |-> h.debt_to_equity,
     current_ratio |-> h.current_ratio, promoter_holding |-> m.promoter_holding,
     promoter_holding_change |-> m.promoter_holding_change, error |-> None]

\* no data, a weak company and a strong one
Profiles == {FundamentalData("TEST"), WEAK_COMPANY("TEST"), STRONG_COMPANY("TEST")}

\* the FundamentalData the scoring is called with: every mix of the profiles,
\* category by category, and every value of the ratios of one category with
\* no data in the others
FundamentalInputs ==
    LET d == FundamentalData("TEST") IN
    {Company(v, p, g, h, m) : v \in Profiles, p \in Profiles, g \in Profiles,
                              h \in Profiles, m \in Profiles}
    \cup {[d EXCEPT !.pe_ratio = a, !.pb_ratio = b, !.dividend_yield = c] :
             a \in PE_RATIOS, b \in PB_RATIOS, c \in DIVIDEND_YIELDS}
    \cup {[d EXCEPT !.roe = a, !.roce = b] : a \in ROES, b \in ROCES}
    \cup {[d EXCEPT !.revenue_growth_3yr = a, !.profit_growth_3yr = b] :
             a \in GROWTHS, b \in GROWTHS}
    \cup {[d EXCEPT !.debt_to_equity = a, !.current_ratio = b] :
             a \in DEBT_TO_EQUITIES, b \in CURRENT_RATIOS}
    \cup {[d EXCEPT !.promoter_holding = a, !.promoter_holding_change = b] :
             a \in PROMOTER_HOLDINGS, b \in PROMOTER_HOLDING_CHANGES}

\* the FundamentalScore values recommendation is read from
CategoryScores == -2 .. 2
ScoreInputs ==
    [valuation_score : CategoryScores, profitability_score : CategoryScores,
     growth_score : CategoryScores, financial_health_score : CategoryScores,
     promoter_score : CategoryScores]

\* the holdings analyze_performers is called with: the four of
\* HOLDINGS_FOUR, one that returns -5% like INFY, and one bought at no cost
MaxHoldings == 4
MaxTopN == 4
HoldingPool ==
    {HOLDINGS_FOUR[i] : i \in DOMAIN HOLDINGS_FOUR}
        \cup {Holding("WIPRO", 4, 200, 190, -40, 1), Holding("ITC", 5, 0, 50, 250, 1)}
HoldingLists ==
    {l \in UNION {[1 .. n -> HoldingPool] : n \in 0 .. MaxHoldings} :
        \A i, j \in DOMAIN l : l[i] = l[j] => i = j}
PerformerInputs ==
    [holdings : HoldingLists, analysis_type : {"worst", "best", "all"},
     top_n : 0 .. MaxTopN]

\* the queries extract_symbol is called with: with an exchange-qualified
\* token alone or next to other names, with several aliases, with one, with
\* none
SymbolQueries ==
    {"check NSE:INFY fundamentals", "nse:infy", "BSE:M&M", "NSE:TCS or reliance",
     "Is bse:wipro Good", "NSE:BAJAJ-AUTO vs ZOMATO", "check NSE:3MINDIA",
     "NSE:3MINDIA", "NSE:3MINDIA vs reliance industries", "reliance industries",
     "tata consultancy services results",
     "state bank of india", "hdfc bank vs icici", "kotak mahindra or axis",
     "is Reliance Industries Limited a buy", "tcs or sbi", "events for 3M India",
     "tcs or tech mahindra", "analyze ZOMATO", "what about the", ""}
\* the NSE symbol cache the registry is loaded from: none, or a listing
SymbolInputs == [query : SymbolQueries, cached : {None, NSE_LISTING}]

\* the calls of should_use_agent on the documented examples
TriggerInputs ==
    UNION {{[agent_type |-> t, query |-> AGENT_TRIGGERS[t][i]] :
                i \in DOMAIN AGENT_TRIGGERS[t]} : t \in DOMAIN AGENT_TRIGGERS}

\* the portfolios identify_opportunities_node is run after: up to
\* MaxHoldings of these tickers (two of one sector, blue chips, one of a
\* sector without suggestions that another sector suggests, one unknown),
\* with the sectors in any order list(set) may give
WATCHED == <<"TCS", "INFY", "HDFCBANK", "RELIANCE", "BHARTIARTL", "LT", "ZOMATO",
             "HINDUNILVR">>
WatchedLists ==
    {[i \in DOMAIN l |-> Holding(WATCHED[l[i]], 10, 100, 110, 100, 2)] :
        l \in {l \in UNION {[1 .. n -> DOMAIN WATCHED] : n \in 0 .. MaxHoldings} :
                  \A i, j \in DOMAIN l : i < j => l[i] < l[j]}}
WatchlistInputs ==
    UNION {{[holdings |-> l, current_sectors |-> order] :
               order \in list_of_set(WL_sectors(l))} : l \in WatchedLists}

\* the sessions refresh_nse_symbols is called in: a first query loads the
\* registry (from the cache file, from the exchange, or not at all), a second
\* query follows, the registry is refreshed, and a query follows the refresh
RegistryQueries ==
    {"events for 3M India", "is Reliance Industries Limited a buy", "tcs or sbi",
     "analyze ZOMATO"}
RegistryInputs ==
    [query : RegistryQueries, cached : {None, NSE_LISTING},
     first : {<<>>, NSE_LISTING}, unlink_ok : BOOLEAN,
     refetch : {<<>>, NSE_LISTING}, later : {<<>>, NSE_LISTING}, write_ok : BOOLEAN]

Calls ==
    {Pending("analyze_fundamentals", d) : d \in FundamentalInputs}
        \cup {Pending("recommendation", x) : x \in ScoreInputs}
        \cup {Pending("analyze_performers", x) : x \in PerformerInputs}
        \cup {Pending("extract_symbol", x) : x \in SymbolInputs}
        \cup {Pending("should_use_agent", x) : x \in TriggerInputs}
        \cup {Pending("identify_opportunities", x) : x \in WatchlistInputs}
        \cup {Pending("extract_symbol_node", x) : x \in SymbolInputs}
        \cup {Pending("refresh_nse_symbols", x) : x \in RegistryInputs}

\* no process_query is in flight; the symbol cache file and the engine matter
\* to a direct call only through its arguments
CallInit ==
    /\ Constructed
    /\ cache = None
    /\ dict_schema = "root"
    /\ runs = NoRuns
    /\ threads = NoThreads
    /\ call \in Calls

\* the call returns `result`
returns(fn, result) ==
    /\ call.fn = fn /\ ~call.done
    /\ call' = [fn |-> fn, args |-> call.args, done |-> TRUE, result |-> result]
    /\ UNCHANGED <<program_vars, runs, threads>>

\* the returned call of `fn`
returned(fn) == call.fn = fn /\ call.done

analyze_fundamentals_call ==
    /\ call.fn = "analyze_fundamentals"
    /\ returns("analyze_fundamentals", analyze_fundamentals(call.args))

recommendation_call ==
    /\ call.fn = "recommendation"
    /\ returns("recommendation",
               [total_score |-> total_score(call.args),
                recommendation |-> recommendation(call.args)])

analyze_performers_call ==
    /\ call.fn = "analyze_performers"
    /\ returns("analyze_performers",
               analyze_performers(call.args.holdings, call.args.analysis_type,
                                  call.args.top_n))

\* extract_symbol(query) on a fresh registry: the listing comes from the
\* cache, and without a cache the fetch fails
extract_symbol_call ==
    /\ call.fn = "extract_symbol"
    /\ returns("extract_symbol",
               extract_symbol(call.args.query,
                              load_nse_symbols(EmptyRegistry, call.args.cached,
                                               <<>>, FALSE).reg))

should_use_agent_call ==
    /\ call.fn = "should_use_agent"
    /\ returns("should_use_agent", should_use_agent(call.args.query))

\* identify_opportunities_node on the state analyze_portfolio_node leaves
\* for the holdings
identify_opportunities_call ==
    /\ call.fn = "identify_opportunities"
    /\ LET analyzed == WL_analyze_portfolio_node(WL_initial_state("Suggest stocks to watch"),
                                                 Ok(call.args.holdings),
                                                 call.args.current_sectors)
           merged == merge_update(WL_initial_state("Suggest stocks to watch"),
                                  analyzed.update, WatchlistState_add)
       IN returns("identify_opportunities",
                  WL_identify_opportunities_node(merged).update["opportunities"])

\* the ticker an entry node's update carries, None when it set the error
resolved(result) == Get(result.update, "symbol", None)

\* the entry nodes of Stock Research and of Fundamental Analysis on the
\* initial state their agents build for the query (no symbol supplied), and
\* extract_symbol itself, the registry loaded as in extract_symbol_call
extract_symbol_node_call ==
    /\ call.fn = "extract_symbol_node"
    /\ LET q == call.args.query
           found == extract_symbol(q, load_nse_symbols(EmptyRegistry, call.args.cached,
                                                       <<>>, FALSE).reg)
       IN returns("extract_symbol_node",
                  [extract_symbol |-> found,
                   stock_research |->
                       resolved(SR_extract_symbol_node(SR_initial_state(q, None),
                                                       extract_symbol_from_query(q))),
                   fundamental_analysis |->
                       resolved(FA_extract_symbol_node(FA_initial_state(q, None), found))])

\* extract_symbol (its load of the registry included) on registry `reg` with
\* the cache file `cached`, the exchange answering `fetched` if it is asked
query_call(q, reg, cached, fetched, write_ok) ==
    LET loaded == load_nse_symbols(reg, cached, fetched, write_ok)
    IN [reg |-> loaded.reg, cache |-> loaded.cache, fetches |-> loaded.fetches,
        found |-> extract_symbol(q, loaded.reg)]

\* the session so far, then the second extract_symbol
then_second(a, first) ==
    [first |-> first,
     second |-> query_call(a.query, first.reg, first.cache, a.later, a.write_ok)]

\* the session so far, then refresh_nse_symbols
then_refresh(a, s) ==
    [first |-> s.first, second |-> s.second,
     refresh |-> refresh_nse_symbols(s.second.reg, s.second.cache, a.unlink_ok,
                                     a.refetch, a.write_ok)]

\* the session so far, then extract_symbol, and is_valid_symbol for every
\* symbol the first load listed
then_later(a, s, later) ==
    [first |-> s.first, second |-> s.second, refresh |-> s.refresh, later |-> later,
     still_valid |-> {symbol \in s.first.reg.symbols : is_valid_symbol(symbol, later.reg)}]

\* a session of registry calls that do not overlap: extract_symbol twice,
\* refresh_nse_symbols, extract_symbol and is_valid_symbol
registry_session(a, s) ==
    then_later(a, s, query_call(a.query, s.refresh.reg, s.refresh.cache, a.later,
                                a.write_ok))

refresh_nse_symbols_call ==
    /\ call.fn = "refresh_nse_symbols"
    /\ returns("refresh_nse_symbols",
               registry_session(call.args,
                   then_refresh(call.args,
                       then_second(call.args,
                           query_call(call.args.query, EmptyRegistry, call.args.cached,
                                      call.args.first, call.args.write_ok)))))

CallNext ==
    \/ analyze_fundamentals_call
    \/ recommendation_call
    \/ analyze_performers_call
    \/ extract_symbol_call
    \/ should_use_agent_call
    \/ identify_opportunities_call
    \/ extract_symbol_node_call
    \/ refresh_nse_symbols_call

CallSpec == CallInit /\ [][CallNext]_vars
-----------------------------------------------------------------------------
(* Concurrent runs on one agent instance: the orchestrator keeps one agent  *)
(* of each kind, so two process_query calls in flight await the same        *)
(* compiled graph.  The event loop interleaves the runs between nodes.      *)

MaxTasks == 2
Tasks == 1 .. MaxTasks

\* the agents whose run method is called concurrently
ConcurrentAgents == {"portfolio_analysis", "stock_research"}

\* the arguments of PortfolioAnalysisAgent.analyze and StockResearchAgent.research
AnalyzeInputs == [query : {"Analyze my portfolio"}, analysis_type : {"worst", "best"}]
ResearchInputs == [query : {"Research TCS", "about the"}, symbol : {None}]

\* what the shared collaborators answer a concurrent run: each call succeeds
\* or raises; the quote lookup, whose failure get_price_node swallows,
\* succeeds
ConcurrentHoldings == {o \in GetHoldingsOutcomes : o.value = HOLDINGS_FOUR \/ o.auth}
ConcurrentQuotes == {o \in GetQuotesOutcomes : o.value = {"NSE"}}
ConcurrentNews == {o \in NewsOutcomes : o.value \/ o.kind = "raise"}
ConcurrentLlm == {o \in LlmOutcomes : o.value = LLM_TEXT \/ o.kind = "raise"}

\* a task that has not called the agent
IdleTask ==
    [pc |-> "idle", node |-> END, ref |-> 0, trace |-> <<>>, alone |-> <<>>,
     result |-> None]

\* `initial_state = {...}`: a dict display builds a new object on each
\* evaluation; objects are numbered in the order they are built
new_object_kept(objects) == 1

new_object(objects) == Len(objects) + 1

\* the heap with `value` at address `ref`
store(objects, ref, value) ==
    IF ref \in DOMAIN objects THEN [objects EXCEPT ![ref] = value]
    ELSE Append(objects, value)

ConcInit ==
    /\ Constructed
    /\ cache = None
    /\ call = NoCall
    /\ threads = NoThreads
    /\ runs \in {[agent |-> a, objects |-> <<>>, task |-> [t \in Tasks |-> IdleTask]] :
                    a \in ConcurrentAgents}

\* task t calls the run method: the initial state is built and ainvoke
\* starts at the entry point; `alone` is the state the run has when no other
\* run touches it
starts(t, initial_state, entry) ==
    /\ runs.task[t].pc = "idle"
    /\ LET ref == new_object(runs.objects) IN
       runs' = [runs EXCEPT
                   !.objects = store(runs.objects, ref, initial_state),
                   !.task[t] = [pc |-> "running", node |-> entry, ref |-> ref,
                                trace |-> <<>>, alone |-> initial_state,
                                result |-> None]]
    /\ UNCHANGED <<program_vars, call, threads>>

\* PortfolioAnalysisAgent.analyze(query, analysis_type) up to ainvoke
analyze(t) ==
    /\ runs.agent = "portfolio_analysis"
    /\ \E x \in AnalyzeInputs :
           starts(t, PA_initial_state(x.query, x.analysis_type),
                  create_portfolio_analysis_graph.entry)

\* StockResearchAgent.research(query, symbol) up to ainvoke
research(t) ==
    /\ runs.agent = "stock_research"
    /\ \E x \in ResearchInputs :
           starts(t, SR_initial_state(x.query, x.symbol),
                  create_stock_research_graph.entry)

\* task t is about to run node `name`
task_at(t, workflow, name) ==
    /\ runs.agent = workflow
    /\ runs.task[t].pc = "running"
    /\ runs.task[t].node = name

\* the state object of task t
state_of(t) == runs.objects[runs.task[t].ref]

\* One step of ainvoke for task t: Node(state) is the node's result on a
\* state, Merge(state, update) the engine's merge and Route(state) the
\* router.  The node reads the task's state object and the engine writes the
\* merged state back to it.
ainvoke_step(t, name, Node(_), Merge(_, _), Route(_), graph) ==
    LET task == runs.task[t]
        result == Node(state_of(t))
        merged == Merge(state_of(t), result.update)
        alone == Merge(task.alone, Node(task.alone).update)
    IN /\ runs' = IF result.raised
                  THEN [runs EXCEPT !.task[t].pc = "raised",
                                    !.task[t].trace = Append(task.trace, name)]
                  ELSE [runs EXCEPT
                           !.objects = store(runs.objects, task.ref, merged),
                           !.task[t].node = next_node(graph, name, Route(merged)),
                           !.task[t].trace = Append(task.trace, name),
                           !.task[t].alone = alone]
       /\ UNCHANGED <<program_vars, call, threads>>

PA_merge(st, update) == merge_update(st, update, PortfolioState_add)

PA_ainvoke_step(t, name, Node(_)) ==
    ainvoke_step(t, name, Node, PA_merge, PA_should_continue,
                 create_portfolio_analysis_graph)

run_fetch_portfolio(t) ==
    /\ task_at(t, "portfolio_analysis", "fetch_portfolio")
    /\ \E holdings_outcome \in ConcurrentHoldings :
           PA_ainvoke_step(t, "fetch_portfolio",
                           LAMBDA s : PA_fetch_portfolio_node(s, holdings_outcome))

run_analyze_performers(t) ==
    /\ task_at(t, "portfolio_analysis", "analyze_performers")
    /\ PA_ainvoke_step(t, "analyze_performers", PA_analyze_performers_node)

run_fetch_news(t) ==
    /\ task_at(t, "portfolio_analysis", "fetch_news")
    /\ \E news_outcome \in ConcurrentNews :
           PA_ainvoke_step(t, "fetch_news",
                           LAMBDA s : PA_fetch_news_node(s, news_outcome))

run_generate_insights(t) ==
    /\ task_at(t, "portfolio_analysis", "generate_insights")
    /\ \E llm_outcome \in ConcurrentLlm :
           PA_ainvoke_step(t, "generate_insights",
                           LAMBDA s : PA_generate_insights_node(s, llm_outcome))

SR_merge(st, update) ==
    IF dict_schema = "root" THEN root_update(st, update)
    ELSE merge_update(st, update, {})

SR_ainvoke_step(t, name, Node(_)) ==
    ainvoke_step(t, name, Node, SR_merge, SR_should_continue,
                 create_stock_research_graph)

run_extract_symbol(t) ==
    /\ task_at(t, "stock_research", "extract_symbol")
    /\ SR_ainvoke_step(t, "extract_symbol",
                       LAMBDA s : SR_extract_symbol_node(
                                      s, extract_symbol_from_query(Get(s, "query", ""))))

run_check_holdings(t) ==
    /\ task_at(t, "stock_research", "check_holdings")
    /\ \E holdings_outcome \in ConcurrentHoldings :
           SR_ainvoke_step(t, "check_holdings",
                           LAMBDA s : SR_check_holdings_node(s, holdings_outcome))

run_get_price(t) ==
    /\ task_at(t, "stock_research", "get_price")
    /\ \E quotes_outcome \in ConcurrentQuotes :
           SR_ainvoke_step(t, "get_price",
                           LAMBDA s : SR_get_price_node(s, quotes_outcome))

run_research_news(t) ==
    /\ task_at(t, "stock_research", "fetch_news")
    /\ \E news_outcome \in ConcurrentNews :
           SR_ainvoke_step(t, "fetch_news",
                           LAMBDA s : SR_fetch_news_node(s, news_outcome))

run_generate_report(t) ==
    /\ task_at(t, "stock_research", "generate_report")
    /\ \E llm_outcome \in ConcurrentLlm :
           SR_ainvoke_step(t, "generate_report",
                           LAMBDA s : SR_generate_report_node(s, llm_outcome))

\* ainvoke returned the final state: the run method hands back the output
\* field
run_returns(t) ==
    /\ runs.task[t].pc = "running" /\ runs.task[t].node = END
    /\ runs' = [runs EXCEPT
                   !.task[t].pc = "returned",
                   !.task[t].result =
                       run_agent_result(runs.agent, state_of(t)).response]
    /\ UNCHANGED <<program_vars, call, threads>>

ConcNext ==
    \E t \in Tasks :
        \/ analyze(t)
        \/ research(t)
        \/ run_fetch_portfolio(t)
        \/ run_analyze_performers(t)
        \/ run_fetch_news(t)
        \/ run_generate_insights(t)
        \/ run_extract_symbol(t)
        \/ run_check_holdings(t)
        \/ run_get_price(t)
        \/ run_research_news(t)
        \/ run_generate_report(t)
        \/ run_returns(t)

ConcSpec == ConcInit /\ [][ConcNext]_vars

(***************************************************************************)
(* Threads inside symbol_tools' registry functions.  The registry is three *)
(* module-level globals (_nse_loaded, _nse_name_to_symbol, _nse_symbols)   *)
(* and a cache file; the functions are synchronous, take no lock, and the  *)
(* download blocks in the network.  Threads interleave between statements. *)
(***************************************************************************)
MaxThreads == 2
MaxRegistryCalls == 3
Threads == 1 .. MaxThreads
RegistryReaders == {"extract_symbol", "is_valid_symbol"}
\* a thread outside the registry functions: `last` is what its last call
\* read of the registry and returned, <<>> before its first call
NoReturn == [fn |-> "none"]
IdleThread == [fn |-> "idle", at |-> "idle", last |-> NoReturn]
\* the rows of EQUITY_L.csv at the time of the calls
MaxListed == 2
Listed == SubSeq(NSE_LISTING, 1, MaxListed)
\* what the exchange's download gives: the listing, or {} when it failed
Downloads == {<<>>, Listed}
\* the registry after a load that had the listing
LoadedRegistry == [populate(EmptyRegistry, Listed, 1) EXCEPT !.loaded = TRUE]

\* what a thread of the registry functions leaves alone
registry_frame == <<pc, query, force_agent, classified, agent, node, state, envelope,
                    trace, collab_calls, dict_schema, broker_answer, call, runs>>

RegInit ==
    /\ Constructed
    /\ cache = None
    /\ dict_schema = "root"
    /\ call = NoCall
    /\ runs = NoRuns
    /\ threads = [thread |-> [t \in Threads |-> IdleThread],
                  calls |-> 0, fetches |-> 0, refreshes |-> 0]

thread_at(t, fns, position) ==
    /\ threads # NoThreads
    /\ threads.thread[t].fn \in fns
    /\ threads.thread[t].at = position

RegistryFunctions == RegistryReaders \cup {"refresh_nse_symbols"}

\* thread t moves to `position`, its locals changed to `locals`
moves(t, position, locals) ==
    threads' = [threads EXCEPT !.thread[t] = [locals EXCEPT !.at = position]]

\* what a registry holds
contents(reg) == [names |-> reg.names, symbols |-> reg.symbols]

\* where _load_nse_symbols returns to in its caller
after_load(fn) ==
    CASE fn = "extract_symbol" -> "copy"
      [] fn = "is_valid_symbol" -> "lookup"
      [] fn = "refresh_nse_symbols" -> "count"

\* a thread calls one of the registry functions
calls(t) ==
    /\ thread_at(t, {"idle"}, "idle")
    /\ threads.calls < MaxRegistryCalls
    /\ \E fn \in RegistryFunctions :
          threads' = [threads EXCEPT
              !.calls = @ + 1,
              !.refreshes = IF fn = "refresh_nse_symbols" THEN @ + 1 ELSE @,
              !.thread[t] = [fn |-> fn,
                             at |-> IF fn = "refresh_nse_symbols" THEN "unset_loaded"
                                    ELSE "load",
                             data |-> <<>>, i |-> 0, entry |-> contents(EmptyRegistry),
                             last |-> threads.thread[t].last]]
    /\ UNCHANGED <<registry, cache, registry_frame>>

\* refresh_nse_symbols: _nse_loaded = False
refresh_unsets_loaded(t) ==
    /\ thread_at(t, {"refresh_nse_symbols"}, "unset_loaded")
    /\ registry' = [registry EXCEPT !.loaded = FALSE]
    /\ moves(t, "clear_names", threads.thread[t])
    /\ UNCHANGED <<cache, registry_frame>>

\* refresh_nse_symbols: _nse_name_to_symbol.clear()
refresh_clears_names(t) ==
    /\ thread_at(t, {"refresh_nse_symbols"}, "clear_names")
    /\ registry' = [registry EXCEPT !.names = <<>>]
    /\ moves(t, "clear_symbols", threads.thread[t])
    /\ UNCHANGED <<cache, registry_frame>>

\* refresh_nse_symbols: _nse_symbols.clear()
refresh_clears_symbols(t) ==
    /\ thread_at(t, {"refresh_nse_symbols"}, "clear_symbols")
    /\ registry' = [registry EXCEPT !.symbols = {}]
    /\ moves(t, "unlink", threads.thread[t])
    /\ UNCHANGED <<cache, registry_frame>>

\* refresh_nse_symbols: _CACHE_FILE.unlink(missing_ok=True), then the call
\* of _load_nse_symbols
refresh_unlinks(t) ==
    /\ thread_at(t, {"refresh_nse_symbols"}, "unlink")
    /\ cache' = None
    /\ moves(t, "load", threads.thread[t])
    /\ UNCHANGED <<registry, registry_frame>>

\* _load_nse_symbols returns to thread t's function, the registry being `reg`
\* at that moment
load_returns(t, reg) ==
    moves(t, after_load(threads.thread[t].fn),
          [threads.thread[t] EXCEPT !.entry = contents(reg)])

\* _load_nse_symbols: `if _nse_loaded: return`
load_checks(t) ==
    /\ thread_at(t, RegistryFunctions, "load")
    /\ IF registry.loaded THEN load_returns(t, registry)
       ELSE moves(t, "read_cache", threads.thread[t])
    /\ UNCHANGED <<registry, cache, registry_frame>>

\* _load_nse_symbols: data = _read_cache()
load_reads_cache(t) ==
    /\ thread_at(t, RegistryFunctions, "read_cache")
    /\ moves(t, IF cache = None THEN "fetch" ELSE "check",
             [threads.thread[t] EXCEPT !.data = IF cache = None THEN <<>> ELSE cache])
    /\ UNCHANGED <<registry, cache, registry_frame>>

\* _load_nse_symbols: data = _fetch_nse_equity_list()
load_fetches(t) ==
    /\ thread_at(t, RegistryFunctions, "fetch")
    /\ \E fetched \in Downloads :
          threads' = [threads EXCEPT
              !.fetches = @ + 1,
              !.thread[t] = [@ EXCEPT !.data = fetched,
                                      !.at = IF fetched # <<>> THEN "write_cache"
                                             ELSE "check"]]
    /\ UNCHANGED <<registry, cache, registry_frame>>

\* _load_nse_symbols: `if data: _write_cache(data)`; the write may fail
load_writes_cache(t) ==
    /\ thread_at(t, RegistryFunctions, "write_cache")
    /\ \E write_ok \in BOOLEAN :
          cache' = IF write_ok THEN threads.thread[t].data ELSE cache
    /\ moves(t, "check", threads.thread[t])
    /\ UNCHANGED <<registry, registry_frame>>

\* _load_nse_symbols: `if not data: ... _nse_loaded = True; return`
load_gives_up(t) ==
    /\ thread_at(t, RegistryFunctions, "check")
    /\ threads.thread[t].data = <<>>
    /\ registry' = [registry EXCEPT !.loaded = TRUE]
    /\ load_returns(t, registry)
    /\ UNCHANGED <<cache, registry_frame>>

\* _load_nse_symbols: one round of `for symbol, company_name in data.items()`
load_adds(t) ==
    /\ thread_at(t, RegistryFunctions, "check")
    /\ threads.thread[t].i < Len(threads.thread[t].data)
    /\ LET i == threads.thread[t].i + 1
           data == threads.thread[t].data
       IN /\ registry' = populate(registry, <<data[i]>>, 1)
          /\ moves(t, "check", [threads.thread[t] EXCEPT !.i = i])
    /\ UNCHANGED <<cache, registry_frame>>

\* _load_nse_symbols: the final `_nse_loaded = True`
load_sets_loaded(t) ==
    /\ thread_at(t, RegistryFunctions, "check")
    /\ threads.thread[t].data # <<>>
    /\ threads.thread[t].i = Len(threads.thread[t].data)
    /\ registry' = [registry EXCEPT !.loaded = TRUE]
    /\ load_returns(t, registry)
    /\ UNCHANGED <<cache, registry_frame>>

\* thread t returns `result`, having read the registry as `seen`
thread_returns(t, seen, result) ==
    threads' = [threads EXCEPT
        !.thread[t] = [fn |-> "idle", at |-> "idle",
                       last |-> [fn |-> threads.thread[t].fn,
                                 entry |-> threads.thread[t].entry,
                                 seen |-> contents(seen), result |-> result]]]

\* _get_name_to_symbol, called by extract_symbol:
\* merged = dict(_nse_name_to_symbol); merged.update(_MANUAL_ALIASES)
query_copies(t) ==
    /\ thread_at(t, {"extract_symbol"}, "copy")
    /\ thread_returns(t, registry, DictKeys(get_name_to_symbol(registry)))
    /\ UNCHANGED <<registry, cache, registry_frame>>

\* is_valid_symbol: return symbol.upper() in _nse_symbols
query_looks_up(t) ==
    /\ thread_at(t, {"is_valid_symbol"}, "lookup")
    /\ thread_returns(t, registry, upper("tcs") \in registry.symbols)
    /\ UNCHANGED <<registry, cache, registry_frame>>

\* refresh_nse_symbols: return len(_nse_symbols)
refresh_returns(t) ==
    /\ thread_at(t, {"refresh_nse_symbols"}, "count")
    /\ thread_returns(t, registry, Cardinality(registry.symbols))
    /\ UNCHANGED <<registry, cache, registry_frame>>

RegNext ==
    \E t \in Threads :
        \/ calls(t)
        \/ refresh_unsets_loaded(t)
        \/ refresh_clears_names(t)
        \/ refresh_clears_symbols(t)
        \/ refresh_unlinks(t)
        \/ load_checks(t)
        \/ load_reads_cache(t)
        \/ load_fetches(t)
        \/ load_writes_cache(t)
        \/ load_gives_up(t)
        \/ load_adds(t)
        \/ load_sets_loaded(t)
        \/ query_copies(t)
        \/ query_looks_up(t)
        \/ refresh_returns(t)

RegSpec == RegInit /\ [][RegNext]_vars
-----------------------------------------------------------------------------
(* Vocabulary of the properties                                            *)

\* the compiled graph of a workflow
graph_of(workflow) ==
    IF workflow = "portfolio_analysis" THEN create_portfolio_analysis_graph
    ELSE IF workflow = "stock_research" THEN create_stock_research_graph
    ELSE IF workflow = "market_context" THEN create_market_context_graph
    ELSE IF workflow = "watchlist" THEN create_watchlist_graph
    ELSE create_fundamental_analysis_graph

\* its entry node
entry_node(workflow) == graph_of(workflow).entry

\* its synthesis node: the node the builder connects to END
synthesis_node(workflow) ==
    IF workflow = "portfolio_analysis" THEN "generate_insights"
    ELSE IF workflow = "stock_research" THEN "generate_report"
    ELSE IF workflow = "market_context" THEN "generate_context"
    ELSE IF workflow = "watchlist" THEN "generate_suggestions"
    ELSE "generate_analysis"

\* the state key the agent's run method returns
output_field(workflow) ==
    IF workflow = "portfolio_analysis" THEN "insights"
    ELSE IF workflow = "stock_research" THEN "research_report"
    ELSE IF workflow = "market_context" THEN "context_report"
    ELSE IF workflow = "watchlist" THEN "suggestions"
    ELSE "response"

\* the error field of the graph state holds a message
error_set == TruthyStr(Get(state, "error", None))

\* how often `name` occurs in the sequence
occurrences(seq, name) == Cardinality({i \in DOMAIN seq : seq[i] = name})

-----------------------------------------------------------------------------
(* Properties                                                              *)

C2_MarketMoveIsMarketContext ==
    (pc # "idle" /\ trace = <<>> /\ classified # <<>>
        /\ AnyMatch(context_patterns, lower(query)))
    => classified = <<TRUE, "market_context">>

\* C3: process_query with a force_agent that is not one of the five
\* identifiers returns used_agent = False, agent_type = None and a response
\* naming the valid identifiers, and runs no node and calls no collaborator.
C3_InvalidForceRejected ==
    (pc # "idle" /\ force_agent # None /\ force_agent \notin valid_agent_types) =>
        /\ pc = "returned"
        /\ agent = None /\ trace = <<>> /\ collab_calls = <<>>
        /\ envelope.used_agent = FALSE
        /\ envelope.agent_type = None
        /\ \A id \in valid_agent_types : Contains(envelope.response, id)

\* C4: process_query with a valid force_agent runs exactly that workflow,
\* once, whatever the classifier would say about the query (it is not
\* asked), and the envelope it returns has used_agent = True.
C4_ValidForceRunsThatWorkflow ==
    (pc # "idle" /\ force_agent \in valid_agent_types) =>
        /\ agent = force_agent
        /\ classified = <<>>
        /\ occurrences(trace, entry_node(force_agent)) <= 1
        /\ (trace # <<>> => trace[1] = entry_node(force_agent))
        /\ (pc = "returned" =>
               /\ envelope.used_agent = TRUE
               /\ occurrences(trace, entry_node(force_agent)) = 1
               /\ envelope.response = state[output_field(force_agent)])

\* C4 witness: a forced watchlist run returned for a query the classifier
\* maps to portfolio_analysis
C4_Witness ==
    /\ pc = "returned"
    /\ force_agent = "watchlist"
    /\ query = "Analyze my portfolio"
    /\ agent = "watchlist"
    /\ envelope.used_agent = TRUE
    /\ should_use_agent(query) = <<TRUE, "portfolio_analysis">>

\* C5: without a forced workflow process_query runs a workflow if and only
\* if should_use_agent classifies the query; for an unclassified query it
\* returns {response: None, used_agent: False, agent_type: None} and no node
\* runs and no collaborator is called.
C5_UnforcedRunsIffClassified ==
    (pc # "idle" /\ force_agent = None) =>
        /\ classified # <<>>
        /\ (agent # None) <=> classified[1]
        /\ classified[1] => agent = classified[2]
        /\ ~classified[1] =>
               /\ pc = "returned"
               /\ trace = <<>> /\ collab_calls = <<>>
               /\ envelope = [response |-> None, used_agent |-> FALSE, agent_type |-> None]

\* C5 witness: an unforced call with a query no family matches has returned
C5_Witness ==
    /\ pc = "returned"
    /\ force_agent = None
    /\ query = "Show my best performers"
    /\ classified = <<FALSE, None>>
    /\ envelope.response = None

\* C6: when process_query ran a workflow, the identifier field of the
\* envelope is the identifier, one of the five, of the workflow that ran.
C6_EnvelopeNamesWorkflowId ==
    (pc = "returned" /\ agent # None) =>
        /\ envelope.agent_type = agent
        /\ envelope.agent_type \in valid_agent_types

\* C7: the classifier's second result is one of the five identifiers or
\* None, the first is True exactly when the second is not None, every
\* identifier the classifier returns or the force validation accepts is
\* dispatched to a workflow, and process_query never returns run_agent's
\* 'Unknown agent type'.
C7_ClosedEnumeration ==
    /\ classified # <<>> =>
           /\ classified[2] \in valid_agent_types \cup {None}
           /\ classified[1] <=> (classified[2] # None)
    /\ (pc # "idle" /\ (force_agent \in valid_agent_types
                          \/ (classified # <<>> /\ classified[1]))) =>
           /\ agent \in valid_agent_types
           /\ agent = IF force_agent \in valid_agent_types THEN force_agent ELSE classified[2]
    /\ pc = "returned" => envelope.response # "Unknown agent type"

\* C7 witness: a classified query was dispatched and its call returned
C7_Witness ==
    /\ pc = "returned"
    /\ classified = <<TRUE, "watchlist">>
    /\ agent = "watchlist"
    /\ envelope.used_agent = TRUE

\* C8: in each workflow, when the entry node has set the error field the
\* node that runs next is the synthesis node, the run ends after it, and
\* the step log at the end is exactly [entry node, synthesis node].
C8_ErrorAtEntrySkipsToSynthesis ==
    [][ /\ (pc = "running" /\ trace = <<entry_node(agent)>> /\ error_set) =>
              /\ node = synthesis_node(agent)
              /\ trace' = <<entry_node(agent), synthesis_node(agent)>>
              /\ pc' = "running"
              /\ node' = END
              /\ state'["steps_completed"] = <<entry_node(agent), synthesis_node(agent)>>
        /\ (pc = "running" /\ node = END) =>
              /\ pc' = "returned"
              /\ trace' = trace
              /\ state' = state
      ]_vars

\* C8 witness: a stock research run that found no symbol has ended with
\* the two-node step log
C8_Witness ==
    /\ pc = "returned"
    /\ agent = "stock_research"
    /\ error_set
    /\ trace = <<"extract_symbol", "generate_report">>
    /\ state["steps_completed"] = <<"extract_symbol", "generate_report">>

\* the synthesis node has not run before the engine reaches END; at END it
\* has run exactly once and was the last node; the value returned is the
\* output field it wrote
SynthesisOnceAndLast ==
    (pc \in {"running", "returned"} /\ agent # None) =>
        /\ node # END => occurrences(trace, synthesis_node(agent)) = 0
        /\ node = END =>
               /\ occurrences(trace, synthesis_node(agent)) = 1
               /\ trace[Len(trace)] = synthesis_node(agent)
        /\ pc = "returned" =>
               /\ node = END
               /\ envelope.response = state[output_field(agent)]

\* a running call is at a node of its graph, or at END
AtANodeOrEnd ==
    pc = "running" =>
        node \in DOMAIN graph_of(agent).conditional \cup DOMAIN graph_of(agent).edges \cup {END}

\* C9: every run of a workflow, on the error path and on the success path,
\* runs the synthesis node exactly once, as its last node, and then ends
\* with the output field the synthesis node wrote as its result, provided
\* no collaborator call ends the run by raising.
C9_SynthesisOnceLastThenEnds ==
    /\ []SynthesisOnceAndLast
    /\ []AtANodeOrEnd
    /\ (pc = "running") ~> (pc \in {"returned", "raised"})

\* C9 witness: a market context run on the success path has returned the
\* report its synthesis node wrote
C9_Witness ==
    /\ pc = "returned"
    /\ agent = "market_context"
    /\ ~error_set
    /\ trace = <<"fetch_portfolio", "identify_movers", "fetch_news", "generate_context">>
    /\ envelope.response = state["context_report"]
    /\ envelope.response = LLM_TEXT

\* C10: in each workflow, the synthesis node run with the error field set
\* makes no LLM call and writes an output that contains the error message.
C10_SynthesisEchoesError ==
    [][ (pc = "running" /\ node = synthesis_node(agent) /\ error_set) =>
            /\ pc' = "running"
            /\ \A i \in (Len(collab_calls) + 1)..Len(collab_calls') :
                   collab_calls'[i] # "llm"
            /\ Contains(state'[output_field(agent)], state["error"])
      ]_vars

\* C10 witness: a market context run over an empty portfolio has ended
\* with the error echoed and no LLM call made
C10_Witness ==
    /\ node = END
    /\ agent = "market_context"
    /\ state["error"] = "No holdings found in portfolio."
    /\ state["context_report"] = "Unable to analyze: No holdings found in portfolio."
    /\ \A i \in DOMAIN collab_calls : collab_calls[i] # "llm"

\* C11: no collaborator exception leaves a gathering node: a call of
\* process_query never ends by raising, and every call that ran a workflow
\* returns an envelope whose response is a string.
C11_NoExceptionEscapes ==
    /\ pc # "raised"
    /\ (pc = "returned" /\ agent # None) => envelope.response # None

\* the text tells the user that they are not logged in
says_not_logged_in(text) == text # None /\ Contains(text, "Not logged in")

\* C12: in every workflow that calls get_holdings, a call in which it failed
\* with AuthenticationError returns a response that tells the user to log
\* in, and no call in which it succeeded or failed otherwise returns such a
\* response.
C12_NotLoggedInIsDistinct ==
    (pc = "returned" /\ agent # None /\ broker_answer # "none") =>
        (broker_answer = "auth" <=> says_not_logged_in(envelope.response))

-----------------------------------------------------------------------------
(* Properties of the pure functions, over their direct calls                *)

\* the numeric fields of a FundamentalData all have their default value
all_defaults(data) == data = FundamentalData(data.symbol)

\* C13: analyze_fundamentals applied to a FundamentalData whose numeric fields
\* all have their default values yields a score whose recommendation is HOLD.
C13_DefaultsGiveHold ==
    (returned("analyze_fundamentals") /\ all_defaults(call.args)) =>
        recommendation(call.result) = "HOLD"

\* the five category scores of a FundamentalScore
categories(score) ==
    <<score.valuation_score, score.profitability_score, score.growth_score,
      score.financial_health_score, score.promoter_score>>

\* C14: for every input, each of the five category scores is an integer in
\* [-2, +2] and total_score is their sum, an integer in [-10, +10]; the two
\* extremes are attained, +10 by STRONG_COMPANY and -10 by WEAK_COMPANY.
C14_ScoresInRange ==
    returned("analyze_fundamentals") =>
        /\ \A i \in 1 .. 5 : categories(call.result)[i] \in -2 .. 2
        /\ total_score(call.result) = sum(categories(call.result))
        /\ total_score(call.result) \in -10 .. 10
        /\ total_score(analyze_fundamentals(STRONG_COMPANY(call.args.symbol))) = 10
        /\ total_score(analyze_fundamentals(WEAK_COMPANY(call.args.symbol))) = -10

\* a call returned the lowest total there is
C14_Witness ==
    /\ returned("analyze_fundamentals")
    /\ total_score(call.result) = -10
    /\ \E i \in 1 .. 5 : categories(call.result)[i] = -2

\* the recommendation band a total score lies in
band(total) ==
    IF total \in 5 .. 10 THEN "STRONG BUY"
    ELSE IF total \in 2 .. 4 THEN "BUY"
    ELSE IF total \in -1 .. 1 THEN "HOLD"
    ELSE IF total \in -4 .. -2 THEN "SELL"
    ELSE IF total \in -10 .. -5 THEN "STRONG SELL"
    ELSE None

\* C15: recommendation is a total function of total_score over [-10, 10] with
\* inclusive lower bounds: >= 5 STRONG BUY, 2..4 BUY, -1..1 HOLD, -4..-2 SELL,
\* <= -5 STRONG SELL; in particular 5 gives STRONG BUY and 4 gives BUY.
C15_RecommendationBands ==
    returned("recommendation") =>
        /\ call.result.total_score \in -10 .. 10
        /\ call.result.recommendation = band(call.result.total_score)
        /\ call.result.total_score = 5 => call.result.recommendation = "STRONG BUY"
        /\ call.result.total_score = 4 => call.result.recommendation = "BUY"

\* a score on the boundary of the highest band was read
C15_Witness ==
    /\ returned("recommendation")
    /\ call.result.total_score = 5
    /\ call.result.recommendation = "STRONG BUY"

\* the return percentage (last_price - avg_price) / avg_price * 100 of a
\* holding is `pct`, 0 when avg_price <= 0
is_return_pct(pct, h) ==
    IF h.average_price <= 0 THEN pct = 0
    ELSE pct * h.average_price = (h.last_price - h.average_price) * 100

\* the return percentages there are: a price is not negative
Percentages == -100 .. 100

\* the return percentages of a result, in its order
return_pcts(result) == [i \in DOMAIN result |-> result[i].return_pct]

\* `result` holds `count` of the holdings (told apart by their symbol), each
\* once and with its return percentage, ordered by In(_, _), and none left
\* out goes before one kept
selected(result, holdings, count, In(_, _)) ==
    LET kept == {result[i].symbol : i \in DOMAIN result} IN
    /\ Len(result) = count
    /\ \A i, j \in DOMAIN result : result[i].symbol = result[j].symbol => i = j
    /\ \A i \in DOMAIN result :
          \E k \in DOMAIN holdings :
             /\ result[i].symbol = holdings[k].tradingsymbol
             /\ is_return_pct(result[i].return_pct, holdings[k])
    /\ \A i, j \in DOMAIN result :
          i < j => In(result[i].return_pct, result[j].return_pct)
    /\ \A i \in DOMAIN result, k \in DOMAIN holdings :
          holdings[k].tradingsymbol \notin kept =>
              \A pct \in Percentages :
                  is_return_pct(pct, holdings[k]) => In(result[i].return_pct, pct)

\* C16: analyze_performers returns at most top_n holdings: for "worst" the
\* top_n with the lowest return percentage in ascending order, for "best" the
\* top_n with the highest in descending order, for "all" the first top_n in
\* their original order; the return percentage is 0 when avg_price <= 0, and
\* returns [10, -5, 0, -20] with "worst" and top_n = 3 give [-20, -5, 0].
C16_PerformersSelected ==
    returned("analyze_performers") =>
        LET holdings == call.args.holdings
            count == Min({call.args.top_n, Len(holdings)})
            Ascending(a, b) == a <= b
            Descending(a, b) == a >= b
            Unordered(a, b) == TRUE
        IN /\ Len(call.result) <= call.args.top_n
           /\ call.args.analysis_type = "worst" =>
                 selected(call.result, holdings, count, Ascending)
           /\ call.args.analysis_type = "best" =>
                 selected(call.result, holdings, count, Descending)
           /\ call.args.analysis_type = "all" =>
                 /\ selected(call.result, holdings, count, Unordered)
                 /\ \A i \in DOMAIN call.result :
                       call.result[i].symbol = holdings[i].tradingsymbol
           /\ (holdings = HOLDINGS_FOUR /\ call.args.analysis_type = "worst"
                   /\ call.args.top_n = 3) =>
                 return_pcts(call.result) = <<-20, -5, 0>>

\* the three worst of the four holdings returning 10%, -5%, 0% and -20%
C16_Witness ==
    /\ returned("analyze_performers")
    /\ call.args.holdings = HOLDINGS_FOUR
    /\ call.args.analysis_type = "worst" /\ call.args.top_n = 3
    /\ return_pcts(call.result) = <<-20, -5, 0>>

\* an exchange-qualified token: NSE or BSE, a colon, and a ticker of 2 to 15
\* characters of [A-Z0-9&-], in either case
qualified_token ==
    Cat(<<Bnd, Alt(<<Lit("NSE"), Lit("BSE")>>), Lit(":"),
          Rep(Cls(SymbolChars), 2, 15), Bnd>>)

\* the tickers of the exchange-qualified tokens of a query, uppercased
qualified_tickers(q) ==
    LET s == upper(q) IN
    {SubSeq(s, p + 5, Max(Ends(qualified_token, s, {p}))) :
        p \in {p \in 0 .. Len(s) : Ends(qualified_token, s, {p}) # {}}}

\* C17: for every query that contains an exchange-qualified token EXCH:TICKER
\* (ticker of 2 to 15 characters from [A-Z0-9&-]), extract_symbol returns
\* that ticker uppercased, whatever else the query contains.
C17_QualifiedTickerWins ==
    (returned("extract_symbol") /\ qualified_tickers(call.args.query) # {}) =>
        call.result \in qualified_tickers(call.args.query)

\* the alias keys, manual or dynamic, that the lowercased query contains
matching_keys(name_map, q) ==
    {name_map[i][1] : i \in {i \in DOMAIN name_map : Contains(lower(q), name_map[i][1])}}

\* the registry a call of extract_symbol works with
registry_of(args) == load_nse_symbols(EmptyRegistry, args.cached, <<>>, FALSE).reg

\* C18: for every query without an exchange-qualified token whose lowercased
\* text contains more than one alias key, extract_symbol returns the ticker
\* mapped from the longest matching key, never that of a shorter one.
C18_LongestAliasWins ==
    (returned("extract_symbol") /\ qualified_tickers(call.args.query) = {}) =>
        LET name_map == get_name_to_symbol(registry_of(call.args))
            keys == matching_keys(name_map, call.args.query)
        IN Cardinality(keys) > 1 =>
              \E k \in keys :
                 /\ \A other \in keys : Len(other) <= Len(k)
                 /\ call.result = DictGet(name_map, k)

\* a query with the keys "reliance" and "reliance industries" gave RELIANCE,
\* and one with "hdfc", "hdfc bank" and "icici" gave HDFCBANK
C18_Witness ==
    /\ returned("extract_symbol")
    /\ call.args.query = "hdfc bank vs icici"
    /\ Cardinality(matching_keys(get_name_to_symbol(registry_of(call.args)),
                                 call.args.query)) > 1
    /\ call.result = "HDFCBANK"

\* C19: each example query listed in AGENT_TRIGGERS under a workflow
\* identifier is classified by should_use_agent as (True, that identifier).
C19_ExamplesTriggerTheirWorkflow ==
    returned("should_use_agent") => call.result = <<TRUE, call.args.agent_type>>

-----------------------------------------------------------------------------
(* Properties of concurrent runs                                            *)

\* the tasks that called the run method
started(t) == runs.task[t].pc # "idle"

\* C20: workflow runs are isolated: every call of the run method builds a
\* brand-new initial state object, and for any interleaving of concurrent
\* runs on the same agent no field of a run's state, step log, error and
\* output included, is read or written by another run: the state of a run
\* is at every moment the state it has when it runs alone.
C20_RunsIsolated ==
    /\ \A t, u \in Tasks :
          (started(t) /\ started(u) /\ t # u) => runs.task[t].ref # runs.task[u].ref
    /\ \A t \in Tasks :
          started(t) =>
             /\ state_of(t) = runs.task[t].alone
             /\ Get(state_of(t), "steps_completed", <<>>) = runs.task[t].trace
                   \/ runs.task[t].pc = "raised"
             /\ runs.task[t].pc = "returned" =>
                   runs.task[t].result
                       = run_agent_result(runs.agent, runs.task[t].alone).response

\* two runs of one agent in flight, both past their first node, at
\* different nodes
C20_Witness ==
    /\ \A t \in Tasks : runs.task[t].pc = "running" /\ runs.task[t].trace # <<>>
    /\ runs.task[1].node # runs.task[2].node
    /\ state_of(1) # state_of(2)

(***************************************************************************)
(* The registry under threads, the workflows' step log and error field.    *)
(***************************************************************************)
\* what thread t's last call read and returned
last_return(t) == threads.thread[t].last

\* what a finished load leaves in the registry: nothing (the load had no
\* listing), or every row of the listing
whole(held) == held \in {contents(EmptyRegistry), contents(LoadedRegistry)}

\* C21: the dynamic registry is populated at most once per process unless
\* refresh_nse_symbols is called, and never mutated mid-query: under every
\* interleaving of extract_symbol, is_valid_symbol and refresh_nse_symbols
\* calls the exchange's listing is downloaded at most once per load (the
\* first load and one per refresh), and no query reads the registry while it
\* is cleared or partly populated.
C21_RegistryLoadedOnceAndWhole ==
    threads # NoThreads =>
        /\ threads.fetches <= 1 + threads.refreshes
        /\ \A t \in Threads :
              last_return(t).fn \in RegistryReaders =>
                  /\ whole(last_return(t).entry)
                  /\ last_return(t).seen = last_return(t).entry

RECURSIVE chain_from(_, _)
\* the nodes from `name` to END along the edges, a conditional edge taking
\* its "continue" branch
chain_from(graph, name) ==
    IF name = END THEN <<>>
    ELSE <<name>> \o chain_from(graph, IF name \in DOMAIN graph.conditional
                                       THEN graph.conditional[name]["continue"]
                                       ELSE graph.edges[name])

\* the full node chain of a workflow's definition
node_chain(workflow) == chain_from(graph_of(workflow), entry_node(workflow))

\* the step log of a graph state
step_log(st) == Get(st, "steps_completed", <<>>)

\* no node name is twice in the step log
StepLogOfARun ==
    (pc \in {"running", "returned", "raised"} /\ agent # None) =>
        \A i, j \in DOMAIN step_log(state) :
            step_log(state)[i] = step_log(state)[j] => i = j

\* C22: in every run of the five workflows the step log is append-only and
\* records each executed node exactly once in execution order: after a node
\* completes the log is the log before it with that node's name appended, no
\* name is ever twice in the log, and the log of an error-free run (the
\* synthesis node is reached with no error set) is the full node chain of
\* the workflow's definition.
C22_StepLogAppendOnly ==
    /\ []StepLogOfARun
    /\ [][ (pc = "running" /\ node # END /\ pc' = "running") =>
               /\ step_log(state') = Append(step_log(state), node)
               /\ (node = synthesis_node(agent) /\ ~error_set) =>
                      step_log(state') = node_chain(agent) ]_vars

\* C22 witness: a stock research run without an error has returned with
\* its five nodes in the log
C22_Witness ==
    /\ pc = "returned"
    /\ agent = "stock_research"
    /\ ~error_set
    /\ step_log(state) = <<"extract_symbol", "check_holdings", "get_price",
                           "fetch_news", "generate_report">>
    /\ trace = step_log(state)

\* the state the run method of the running workflow started the graph with
initial_state == run_agent_dispatch(agent, query).state

\* the fields the gathering nodes fetch or compute, and the inputs
data_fields == DOMAIN initial_state \ {"error", "steps_completed", output_field(agent)}

\* C23: in every run of the five workflows, once the error field is set no
\* node calls a collaborator or changes a data field: until the synthesis
\* node has written the output field the only other change is to the step
\* log, and when the errored run ends every data field still holds the value
\* the run started with.
C23_ErrorFreezesData ==
    [][ (pc = "running" /\ node # END /\ error_set) =>
            /\ pc' = "running"
            /\ collab_calls' = collab_calls
            /\ \A k \in DOMAIN state' \ {"steps_completed", output_field(agent)} :
                   k \in DOMAIN state /\ state'[k] = state[k]
            /\ node' = END =>
                   \A k \in data_fields \cap DOMAIN state' : state'[k] = initial_state[k]
      ]_vars

\* C23 witness: a market context run whose entry node set the error has
\* ended after the synthesis node, its data fields as they started
C23_Witness ==
    /\ pc = "returned"
    /\ agent = "market_context"
    /\ error_set
    /\ trace = <<"fetch_portfolio", "generate_context">>
    /\ collab_calls = <<"get_holdings">>
    /\ \A k \in data_fields : state[k] = initial_state[k]

\* get_holdings failed or gave no holdings; get_quotes failed or gave no quote
no_holdings(outcome) == outcome.kind = "raise" \/ outcome.value = <<>>
no_quotes(outcome) == outcome.kind = "raise" \/ outcome.value = {}

\* the error field of a state
error_of(st) == Get(st, "error", None)

\* in Stock Research the error field is only ever set for a query with no
\* symbol, and it is set once the entry node has met such a query
SR_ErrorIffNoSymbol ==
    (pc \in {"running", "returned", "raised"} /\ agent = "stock_research") =>
        /\ error_set => ~TruthyStr(extract_symbol_from_query(query))
        /\ (trace = <<"extract_symbol">> /\ ~error_set) =>
               TruthyStr(extract_symbol_from_query(query))

\* C24: in Stock Research the error field is set if and only if the entry
\* node cannot resolve a symbol: a failed or empty get_holdings and a failed
\* or empty get_quotes each leave the error field unset and store none in
\* their own field, whatever the other did; the run goes on through all five
\* nodes in order and the synthesis node asks the LLM for a report instead of
\* writing the error message.
C24_OnlySymbolIsAnError ==
    /\ []SR_ErrorIffNoSymbol
    /\ [][ /\ at("stock_research", "check_holdings") =>
               /\ pc' = "running" /\ node' = "get_price"
               /\ ~TruthyStr(error_of(state'))
               /\ broker_answer' \in {"auth", "error"} =>
                      ~TruthyObj(state'["holdings_position"])
               /\ \A o \in GetHoldingsOutcomes : no_holdings(o) =>
                      LET result == SR_check_holdings_node(state, o) IN
                      /\ ~result.raised
                      /\ "error" \notin DOMAIN result.update
                      /\ ~TruthyObj(result.update["holdings_position"])
           /\ at("stock_research", "get_price") =>
               /\ pc' = "running" /\ node' = "fetch_news"
               /\ ~TruthyStr(error_of(state'))
               /\ \A o \in GetQuotesOutcomes : no_quotes(o) =>
                      LET result == SR_get_price_node(state, o) IN
                      /\ ~result.raised
                      /\ "error" \notin DOMAIN result.update
                      /\ ~TruthyObj(result.update["current_price"])
           /\ (at("stock_research", "generate_report") /\ ~error_set) =>
               /\ pc' = "running" /\ node' = END
               /\ trace' = <<"extract_symbol", "check_holdings", "get_price",
                             "fetch_news", "generate_report">>
               /\ collab_calls' = Append(collab_calls, "llm")
               /\ ~Contains(state'["research_report"], "Unable to research")
      ]_vars

\* C24 witness: a stock research run in which get_holdings failed and
\* get_quotes gave no quote has returned the LLM's report after five nodes
C24_Witness ==
    /\ pc = "returned"
    /\ agent = "stock_research"
    /\ dict_schema = "keys"
    /\ broker_answer = "error"
    /\ ~error_set
    /\ ~TruthyObj(state["holdings_position"])
    /\ ~TruthyObj(state["current_price"])
    /\ Len(trace) = 5
    /\ state["research_report"] = LLM_TEXT

\* the tickers SECTOR_SUGGESTIONS lists for the sectors of the holdings
held_sector_tickers(holdings) ==
    UNION {{DictGet(SECTOR_SUGGESTIONS, s)[i] : i \in DOMAIN DictGet(SECTOR_SUGGESTIONS, s)} :
              s \in WL_sectors(holdings) \cap DictKeys(SECTOR_SUGGESTIONS)}

\* C25: the candidate list identify_opportunities_node produces holds, for
\* every set of holdings, no ticker the user already holds and no ticker
\* twice, has at most 10 entries, and lists the candidates from the user's
\* held sectors before any blue-chip filler.
C25_CandidatesDistinctUnheldCapped ==
    returned("identify_opportunities") =>
        LET candidates == call.result
            held == {call.args.holdings[i].tradingsymbol : i \in DOMAIN call.args.holdings}
            from_sector(i) == candidates[i].symbol \in held_sector_tickers(call.args.holdings)
        IN /\ \A i \in DOMAIN candidates : candidates[i].symbol \notin held
           /\ \A i, j \in DOMAIN candidates :
                  candidates[i].symbol = candidates[j].symbol => i = j
           /\ Len(candidates) <= 10
           /\ \A i, j \in DOMAIN candidates : (i < j /\ from_sector(j)) => from_sector(i)
           /\ \A i \in DOMAIN candidates :
                  ~from_sector(i) => \E k \in DOMAIN blue_chips : candidates[i].symbol = blue_chips[k]

\* C25 witness: for a holding in IT and one in Banking the sector candidates
\* fill the list of 10, the last a Banking one, and no blue chip follows
C25_Witness ==
    /\ returned("identify_opportunities")
    /\ Len(call.args.holdings) = 2
    /\ call.args.current_sectors = <<"IT", "Banking">>
    /\ Len(call.result) = 10
    /\ call.result[10].sector = "Banking"

\* the workflows whose entry node fetches the holdings
holdings_first == {"portfolio_analysis", "market_context", "watchlist"}

\* the broker answered the entry node's get_holdings with an empty list: no
\* exception, and nothing in the field the entry node fills from the holdings
empty_portfolio ==
    /\ pc \in {"running", "returned"} /\ agent \in holdings_first
    /\ trace # <<>>
    /\ broker_answer = "ok"
    /\ ~TruthyObj(Get(state, IF agent = "portfolio_analysis" THEN "holdings"
                             ELSE IF agent = "market_context" THEN "portfolio_pnl"
                             ELSE "current_holdings", NoneObj))

\* C26: an empty holdings list from the broker is an error in every workflow
\* whose entry node fetches the holdings (Portfolio Analysis, Market Context,
\* Watchlist Suggestion): the entry node sets the error field, the run goes
\* from the entry node straight to the synthesis node, and the LLM is not
\* called.
C26_EmptyPortfolioIsAnError ==
    empty_portfolio =>
        /\ error_set
        /\ node # END => (trace = <<entry_node(agent)>> /\ node = synthesis_node(agent))
        /\ node = END => trace = <<entry_node(agent), synthesis_node(agent)>>
        /\ \A i \in DOMAIN collab_calls : collab_calls[i] # "llm"

\* the fundamentals collaborator answered the run's ticker with an error result
fundamentals_failed ==
    /\ pc \in {"running", "returned"} /\ agent = "fundamental_analysis"
    /\ TruthyObj(Get(state, "fundamentals", NoneObj))
    /\ TruthyStr(state["fundamentals"].error)

\* C27: in Fundamental Analysis, when the fundamentals collaborator returns
\* an error result for the resolved ticker, the error field of the state is
\* set, the LLM is not called, and the synthesis node returns an error
\* message instead of an LLM-generated analysis.
C27_FailedFundamentalsIsAnError ==
    fundamentals_failed =>
        /\ error_set
        /\ \A i \in DOMAIN collab_calls : collab_calls[i] # "llm"
        /\ pc = "returned" =>
               /\ Contains(state["response"], "## Analysis Error")
               /\ state["response"] # LLM_TEXT

\* C28: for every query, the ticker the Stock Research entry node resolves
\* (no symbol supplied) is the ticker extract_symbol returns for the query,
\* which is also what the Fundamental Analysis entry node resolves; and
\* neither is an ordinary word of the query, such as the verb of the request.
C28_EntryNodesResolveAlike ==
    returned("extract_symbol_node") =>
        /\ call.result.stock_research = call.result.extract_symbol
        /\ call.result.fundamental_analysis = call.result.extract_symbol
        /\ \A r \in {call.result.stock_research, call.result.fundamental_analysis} :
               r = None \/ lower(r) \notin (STOPWORDS \cup _COMMON_WORDS)

\* the query holds one of the words, in any case
has_word(words) == \E w \in words : Contains(lower(query), w)
worst_words == {"worst", "losing", "loss", "down", "decline", "poor"}
best_words == {"best", "top", "winning", "gain", "up", "good"}

\* C29: detect_analysis_type returns only "worst" or "best": "worst" for a
\* query with a worst-keyword, a best-keyword in it or not, and for a query
\* with neither; so every Portfolio Analysis run started by the orchestrator
\* has analysis_type "worst" or "best", and analyze_performers is never asked
\* for the unsorted "all" ranking.
C29_AnalysisTypeWorstOrBest ==
    (agent = "portfolio_analysis" /\ pc # "idle") =>
        /\ state["analysis_type"] \in {"worst", "best"}
        /\ state["analysis_type"] = "worst" <=> (has_word(worst_words) \/ ~has_word(best_words))
        /\ state["analysis_type"] = detect_analysis_type(query)

\* C29 witness: a run for a query with best-keywords before a worst-keyword
\* has ranked the worst performers
C29_Witness ==
    /\ agent = "portfolio_analysis"
    /\ pc = "running"
    /\ query = "Show my top gainers and losing stocks"
    /\ has_word(best_words) /\ has_word(worst_words)
    /\ "analyze_performers" \in {trace[i] : i \in DOMAIN trace}
    /\ state["analysis_type"] = "worst"
    /\ state["target_stocks"] # <<>>

\* what extract_symbol finds with the manual aliases only
manual_only(q) == extract_symbol(q, [EmptyRegistry EXCEPT !.loaded = TRUE])

\* C30: refresh_nse_symbols clears the dynamic registry and deletes the cache
\* file before it asks the exchange again, so when that fetch fails it
\* returns 0, the registry stays empty (no symbol valid before is valid
\* after), a later extract_symbol finds what the manual aliases alone find
\* and asks the exchange no more; and a failed first load is not retried by
\* the next query.
C30_FailedRefreshLeavesManualAliases ==
    returned("refresh_nse_symbols") =>
        LET a == call.args
            r == call.result
        IN /\ r.refresh.fetches = 1 =>
                  (a.unlink_ok \/ r.second.cache = None) /\ r.second.reg.loaded
           /\ (r.refresh.fetches = 1 /\ a.refetch = <<>>) =>
                  /\ r.refresh.count = 0
                  /\ r.refresh.reg = [EmptyRegistry EXCEPT !.loaded = TRUE]
                  /\ r.refresh.cache = None
                  /\ r.still_valid = {}
                  /\ r.later.fetches = 0
                  /\ r.later.reg = r.refresh.reg
                  /\ r.later.found = manual_only(a.query)
           /\ (r.first.fetches = 1 /\ a.first = <<>>) =>
                  /\ r.second.fetches = 0
                  /\ r.second.reg = [EmptyRegistry EXCEPT !.loaded = TRUE]
                  /\ r.second.found = manual_only(a.query)

\* C30 witness: a registry loaded from the exchange resolved a listed name;
\* the refresh deleted the cache file, its fetch failed, and the later query,
\* for which the exchange would have answered, no longer resolves the name
C30_Witness ==
    /\ returned("refresh_nse_symbols")
    /\ call.args.cached = None /\ call.args.first = NSE_LISTING /\ call.args.write_ok
    /\ call.args.unlink_ok /\ call.args.refetch = <<>> /\ call.args.later = NSE_LISTING
    /\ call.result.first.cache = NSE_LISTING
    /\ call.result.first.found = "3MINDIA"
    /\ call.result.refresh.fetches = 1 /\ call.result.refresh.count = 0
    /\ call.result.later.found # "3MINDIA"
    /\ call.result.later.fetches = 0
=============================================================================
